---- MODULE Spec2Model ----
(***************************************************************************)
(* State-machine model of adn-cli: the configuration store                 *)
(* (adn/utils/config.py), the PDF extraction-file generator                *)
(* (adn/utils/file_handler.py) and the batch drivers                       *)
(* (adn/commands/create.py).                                               *)
(*                                                                         *)
(* Files are modelled by their parsed structure: a YAML document is a      *)
(* record [kind, entries]; a path is a pair <<kind, n>>.  Configuration    *)
(* values are written as strings ("100" for 100, "False" for False).       *)
(***************************************************************************)
EXTENDS Integers, Sequences, FiniteSets, TLC

\* ------------------------------------------------------------------ bounds
\* The clock counts half seconds; it stops at MaxClock.
MaxClock == 2

\* Number of clock ticks in one second of the backup timestamp.
TicksPerSecond == 2

\* ------------------------------------------------------- configuration data
Managers == {"m1", "m2"}

KnownKeys ==
  {"default_template", "output_suffix", "default_output_dir", "log_level",
   "auto_open_generated", "preserve_structure", "date_format", "encoding",
   "max_filename_length"}

\* ConfigManager._default_config
DefaultConfig ==
  [k \in KnownKeys |->
     CASE k = "default_template"    -> "default"
       [] k = "output_suffix"       -> "_extraccion"
       [] k = "default_output_dir"  -> "."
       [] k = "log_level"           -> "INFO"
       [] k = "auto_open_generated" -> "False"
       [] k = "preserve_structure"  -> "True"
       [] k = "date_format"         -> "%d/%m/%Y %H:%M"
       [] k = "encoding"            -> "utf-8"
       [] k = "max_filename_length" -> "100"]

\* Keys and values the callers pass to set_config / get_config_value.
SetKeys   == {"default_template", "test_key"}
SetValues == {"original", "modificado"}
Fallbacks == {"None", "valor_default"}

EmptyMap == [k \in {} |-> "x"]

\* dict.update(): the right operand wins on a key collision.
DictUpdate(base, over) ==
  [k \in (DOMAIN base) \cup (DOMAIN over) |->
     IF k \in DOMAIN over THEN over[k] ELSE base[k]]

\* dict.get(key, default)
DictGet(d, key, default) == IF key \in DOMAIN d THEN d[key] ELSE default

\* ------------------------------------------------------------- file system
\* A document on disk.  kind: "absent" (no file), "map" (a YAML mapping),
\* "empty" (parses to None), "list" (parses, but is not a mapping),
\* "garbage" (yaml.YAMLError).
AbsentDoc  == [kind |-> "absent",  entries |-> EmptyMap]
EmptyDoc   == [kind |-> "empty",   entries |-> EmptyMap]
ListDoc    == [kind |-> "list",    entries |-> EmptyMap]
GarbageDoc == [kind |-> "garbage", entries |-> EmptyMap]

\* yaml.dump(config, f, ...) in _write_config: the document is the mapping
\* itself; yaml.safe_load gives back the str, bool and int scalars dumped.
YamlDump(config) == [kind |-> "map", entries |-> config]

ConfigFile == <<"config", 0>>

\* strftime("%Y%m%d_%H%M%S"): the timestamp has a resolution of one second.
Timestamp(now) == now \div TicksPerSecond

\* config_dir / f"config_backup_{timestamp}.yaml"
BackupFile(now) == <<"config_backup", Timestamp(now)>>

BackupPaths == {BackupFile(t) : t \in 0..MaxClock}

\* Files of the user handed to restore_config, never written by the program.
PartialYaml == <<"external", 0>>
ListYaml    == <<"external", 1>>
InvalidYaml == <<"external", 2>>
NoExiste    == <<"external", 3>>
ExternalPaths == {PartialYaml, ListYaml, InvalidYaml, NoExiste}

ExternalContent(p) ==
  CASE p = PartialYaml -> YamlDump([k \in {"default_template"} |-> "original"])
    [] p = ListYaml    -> ListDoc
    [] p = InvalidYaml -> GarbageDoc
    [] p = NoExiste    -> AbsentDoc

Paths == {ConfigFile} \cup BackupPaths \cup ExternalPaths
NoPath == <<"none", 0>>

VARIABLES
  fs,       \* Paths -> document
  clock,    \* current time, in ticks
  cache,    \* Managers -> ConfigManager._config_cache
  lastOp,   \* the last ConfigManager call and its outcome
  snap      \* history: the backup taken by the last backup_config() call

cfgVars == <<fs, clock, cache, lastOp, snap>>

\* State of FileHandler and of the batch drivers (PDF mode).
VARIABLES
  outFs,          \* the output files: path -> content, for the existing paths
  genLast,        \* the last FileHandler call and its outcome
  pc,             \* position of the batch driver
  driver,         \* the driver entry point that is running
  batch,          \* pdf_files of the running driver
  idx,            \* index of the next item of batch
  args,           \* the driver's output directory, template and force
  success_count,
  error_count,
  log,            \* per item visited: its outcome
  runs            \* number of driver invocations so far

genVars == <<outFs, genLast, pc, driver, batch, idx, args, success_count,
             error_count, log, runs>>

\* State of the templates directory and of CSV mode.
VARIABLES
  tplFs,          \* the templates directory: template name -> file
  tplLast,        \* the last TemplateEngine call and its outcome
  csvOut,         \* the output directory of CSV mode: file name -> entry
  csvLast,        \* the last CSVToMarkdownProcessor call and its outcome
  csvRuns         \* number of calls made in CSV mode so far

\* A call of one of the pure helpers: its arguments and, once made, its result.
VARIABLE fnCall

extVars == <<tplFs, tplLast, csvOut, csvLast, csvRuns, fnCall>>

vars == <<fs, clock, cache, lastOp, snap, outFs, genLast, pc, driver, batch,
          idx, args, success_count, error_count, log, runs, tplFs, tplLast,
          csvOut, csvLast, csvRuns, fnCall>>

\* No helper call is under way.
NoCall == [op |-> "none", done |-> TRUE]

Exists(f, p) == f[p].kind # "absent"

\* _config_cache: None, or a loaded mapping
NoCache == [loaded |-> FALSE, cfg |-> EmptyMap]
Cached(cfg) == [loaded |-> TRUE, cfg |-> cfg]

\* get_config() that returns the persisted mapping without the defaults.
GetConfig_NoDefaults(f, c) ==
  IF c.loaded
    THEN [result |-> "ok", cfg |-> c.cfg, cache |-> c]
  ELSE IF ~Exists(f, ConfigFile)
    THEN [result |-> "FileNotFoundError", cfg |-> EmptyMap, cache |-> c]
  ELSE IF f[ConfigFile].kind = "garbage"
    THEN [result |-> "YAMLError", cfg |-> EmptyMap, cache |-> c]
  ELSE IF f[ConfigFile].kind = "list"
    THEN [result |-> "ValueError", cfg |-> EmptyMap, cache |-> c]
  ELSE [result |-> "ok", cfg |-> f[ConfigFile].entries,
        cache |-> Cached(f[ConfigFile].entries)]

\* ------------------------------------------------------------ get_config
\* Outcome of get_config() of manager m on file system f: the exception or
\* "ok", the mapping returned and the cache afterwards.
GetConfig(f, c) ==
  IF c.loaded
    THEN [result |-> "ok", cfg |-> c.cfg, cache |-> c]
  ELSE IF ~Exists(f, ConfigFile)
    THEN [result |-> "FileNotFoundError", cfg |-> EmptyMap, cache |-> c]
  ELSE IF f[ConfigFile].kind = "garbage"
    THEN [result |-> "YAMLError", cfg |-> EmptyMap, cache |-> c]
  ELSE IF f[ConfigFile].kind = "list"
    THEN [result |-> "ValueError", cfg |-> EmptyMap, cache |-> c]
  ELSE LET config == IF f[ConfigFile].kind = "empty"
                       THEN EmptyMap
                       ELSE f[ConfigFile].entries
           full_config == DictUpdate(DefaultConfig, config)
       IN [result |-> "ok", cfg |-> full_config, cache |-> Cached(full_config)]

\* get_config_value(key, default)
GetConfigValue(f, c, key, default) ==
  LET r == GetConfig(f, c)
  IN IF r.result = "ok"
       THEN [result |-> "ok", val |-> DictGet(r.cfg, key, default),
             cache |-> r.cache]
     ELSE IF r.result = "FileNotFoundError"
       THEN [result |-> "ok", val |-> DictGet(DefaultConfig, key, default),
             cache |-> r.cache]
     ELSE [result |-> r.result, val |-> "None", cache |-> r.cache]

\* _write_config(config)
WriteConfig(f, config) == [f EXCEPT ![ConfigFile] = YamlDump(config)]

\* backup_config(): the file system afterwards
BackupWrite(f, now) == [f EXCEPT ![BackupFile(now)] = f[ConfigFile]]

Op(op, m, result, key, val, file, force, retCfg, retVal) ==
  [op |-> op, mgr |-> m, result |-> result, key |-> key, val |-> val,
   file |-> file, force |-> force, retCfg |-> retCfg, retVal |-> retVal]

NoSnap == [active |-> FALSE, file |-> NoPath, cfg |-> EmptyMap,
           restored |-> FALSE]

\* ------------------------------------------------------------------ Init
FsInit ==
  [p \in Paths |-> IF p \in ExternalPaths THEN ExternalContent(p) ELSE AbsentDoc]

\* --------------------------------------------------------------- actions
Tick ==
  /\ clock < MaxClock
  /\ clock' = clock + 1
  /\ snap' = IF snap.restored THEN NoSnap ELSE snap
  /\ UNCHANGED <<fs, cache, lastOp>>
  /\ UNCHANGED genVars
  /\ UNCHANGED extVars

\* init_config that overwrites whatever force says.
init_config_IgnoresForce(m, force) ==
  /\ fs' = [fs EXCEPT ![ConfigFile] = YamlDump(DefaultConfig)]
  /\ cache' = [cache EXCEPT ![m] = NoCache]
  /\ lastOp' = Op("init_config", m, "ok", "", "", ConfigFile, force, EmptyMap,
                  "None")
  /\ snap' = NoSnap
  /\ UNCHANGED clock
  /\ UNCHANGED genVars
  /\ UNCHANGED extVars

init_config(m, force) ==
  /\ IF Exists(fs, ConfigFile) /\ ~force
       THEN /\ lastOp' = Op("init_config", m, "FileExistsError", "", "", NoPath,
                            force, EmptyMap, "None")
            /\ UNCHANGED <<fs, cache>>
       ELSE /\ fs' = WriteConfig(fs, DefaultConfig)
            /\ cache' = [cache EXCEPT ![m] = NoCache]
            /\ lastOp' = Op("init_config", m, "ok", "", "", ConfigFile,
                            force, EmptyMap, "None")
  /\ snap' = NoSnap
  /\ UNCHANGED clock
  /\ UNCHANGED genVars
  /\ UNCHANGED extVars

get_config(m) ==
  LET r == GetConfig(fs, cache[m])
  IN /\ cache' = [cache EXCEPT ![m] = r.cache]
     /\ lastOp' = Op("get_config", m, r.result, "", "", NoPath, FALSE,
                     r.cfg, "None")
     /\ snap' = NoSnap
     /\ UNCHANGED extVars
     /\ UNCHANGED <<fs, clock>>
     /\ UNCHANGED genVars
     /\ UNCHANGED extVars

\* set_config that keeps the cache it loaded.
set_config_KeepsCache(m, key, value) ==
  LET r == GetConfig(fs, cache[m])
  IN /\ IF r.result \notin {"ok", "FileNotFoundError"}
          THEN /\ lastOp' = Op("set_config", m, r.result, key, value, NoPath,
                               FALSE, EmptyMap, "None")
               /\ UNCHANGED <<fs, cache>>
          ELSE LET config == IF r.result = "ok" THEN r.cfg ELSE DefaultConfig
                   updated == DictUpdate(config, [k \in {key} |-> value])
               IN /\ fs' = [fs EXCEPT ![ConfigFile] = YamlDump(updated)]
                  /\ cache' = [cache EXCEPT ![m] = r.cache]
                  /\ lastOp' = Op("set_config", m, "ok", key, value, NoPath,
                                  FALSE, EmptyMap, "None")
     /\ snap' = IF snap.restored THEN NoSnap ELSE snap
     /\ UNCHANGED clock
     /\ UNCHANGED genVars
     /\ UNCHANGED extVars

set_config(m, key, value) ==
  LET r == GetConfig(fs, cache[m])
  IN /\ IF r.result \notin {"ok", "FileNotFoundError"}
          THEN /\ lastOp' = Op("set_config", m, r.result, key, value, NoPath,
                               FALSE, EmptyMap, "None")
               /\ UNCHANGED <<fs, cache>>
          ELSE LET config == IF r.result = "ok" THEN r.cfg ELSE DefaultConfig
                   updated == DictUpdate(config, [k \in {key} |-> value])
               IN /\ fs' = WriteConfig(fs, updated)
                  /\ cache' = [cache EXCEPT ![m] = NoCache]
                  /\ lastOp' = Op("set_config", m, "ok", key, value, NoPath,
                                  FALSE, EmptyMap, "None")
     /\ snap' = IF snap.restored THEN NoSnap ELSE snap
     /\ UNCHANGED clock
     /\ UNCHANGED genVars
     /\ UNCHANGED extVars

get_config_value(m, key, default) ==
  LET r == GetConfigValue(fs, cache[m], key, default)
  IN /\ cache' = [cache EXCEPT ![m] = r.cache]
     /\ lastOp' = Op("get_config_value", m, r.result, key, default, NoPath,
                     FALSE, EmptyMap, r.val)
     /\ snap' = NoSnap
     /\ UNCHANGED extVars
     /\ UNCHANGED <<fs, clock>>
     /\ UNCHANGED genVars
     /\ UNCHANGED extVars

\* reset_config that does not invalidate the cache.
reset_config_KeepsCache(m) ==
  /\ fs' = [fs EXCEPT ![ConfigFile] = YamlDump(DefaultConfig)]
  /\ lastOp' = Op("reset_config", m, "ok", "", "", NoPath, FALSE, EmptyMap,
                  "None")
  /\ snap' = NoSnap
  /\ UNCHANGED <<clock, cache>>
  /\ UNCHANGED genVars
  /\ UNCHANGED extVars

reset_config(m) ==
  /\ fs' = WriteConfig(fs, DefaultConfig)
  /\ cache' = [cache EXCEPT ![m] = NoCache]
  /\ lastOp' = Op("reset_config", m, "ok", "", "", NoPath, FALSE, EmptyMap,
                  "None")
  /\ snap' = NoSnap
  /\ UNCHANGED clock
  /\ UNCHANGED genVars
  /\ UNCHANGED extVars

backup_config(m) ==
  /\ IF ~Exists(fs, ConfigFile)
       THEN /\ lastOp' = Op("backup_config", m, "FileNotFoundError", "", "",
                            NoPath, FALSE, EmptyMap, "None")
            /\ snap' = NoSnap
            /\ UNCHANGED fs
       ELSE LET r == GetConfig(fs, cache[m])
            IN /\ fs' = BackupWrite(fs, clock)
               /\ lastOp' = Op("backup_config", m, "ok", "", "",
                               BackupFile(clock), FALSE, EmptyMap, "None")
               /\ snap' = IF r.result = "ok"
                            THEN [active |-> TRUE, file |-> BackupFile(clock),
                                  cfg |-> r.cfg, restored |-> FALSE]
                            ELSE NoSnap
  /\ UNCHANGED <<clock, cache>>
  /\ UNCHANGED genVars
  /\ UNCHANGED extVars

\* restore_config that backs up the current state before it validates.
restore_config_BackupFirst(m, backup_file) ==
  LET fs1 == IF Exists(fs, ConfigFile) THEN BackupWrite(fs, clock) ELSE fs
  IN /\ IF ~Exists(fs, backup_file)
          THEN /\ lastOp' = Op("restore_config", m, "FileNotFoundError", "", "",
                               backup_file, FALSE, EmptyMap, "None")
               /\ fs' = fs1
               /\ UNCHANGED cache
        ELSE IF fs[backup_file].kind = "garbage"
          THEN /\ lastOp' = Op("restore_config", m, "ValueError", "", "",
                               backup_file, FALSE, EmptyMap, "None")
               /\ fs' = fs1
               /\ UNCHANGED cache
        ELSE /\ fs' = [fs1 EXCEPT ![ConfigFile] = fs1[backup_file]]
             /\ cache' = [cache EXCEPT ![m] = NoCache]
             /\ lastOp' = Op("restore_config", m, "ok", "", "", backup_file,
                             FALSE, EmptyMap, "None")
     /\ snap' = NoSnap
     /\ UNCHANGED clock
     /\ UNCHANGED genVars
     /\ UNCHANGED extVars

restore_config(m, backup_file) ==
  /\ IF ~Exists(fs, backup_file)
       THEN /\ lastOp' = Op("restore_config", m, "FileNotFoundError", "", "",
                            backup_file, FALSE, EmptyMap, "None")
            /\ snap' = NoSnap
            /\ UNCHANGED <<fs, cache>>
     ELSE IF fs[backup_file].kind = "garbage"
       THEN /\ lastOp' = Op("restore_config", m, "ValueError", "", "",
                            backup_file, FALSE, EmptyMap, "None")
            /\ snap' = NoSnap
            /\ UNCHANGED <<fs, cache>>
     ELSE LET fs1 == IF Exists(fs, ConfigFile)
                       THEN BackupWrite(fs, clock) ELSE fs
          IN /\ fs' = [fs1 EXCEPT ![ConfigFile] = fs1[backup_file]]
             /\ cache' = [cache EXCEPT ![m] = NoCache]
             /\ lastOp' = Op("restore_config", m, "ok", "", "", backup_file,
                             FALSE, EmptyMap, "None")
             /\ snap' = IF snap.active /\ ~snap.restored
                            /\ snap.file = backup_file
                          THEN [snap EXCEPT !.restored = TRUE]
                          ELSE NoSnap
  /\ UNCHANGED clock
  /\ UNCHANGED genVars
  /\ UNCHANGED extVars

\* The operations of one ConfigManager instance.
CfgNext ==
  \/ Tick
  \/ \E force \in BOOLEAN : init_config("m1", force)
  \/ get_config("m1")
  \/ \E key \in SetKeys, value \in SetValues : set_config("m1", key, value)
  \/ \E key \in SetKeys \cup {"log_level"}, default \in Fallbacks :
       get_config_value("m1", key, default)
  \/ reset_config("m1")
  \/ backup_config("m1")
  \/ \E b \in Paths : restore_config("m1", b)


\* ======================================================================
\* PDF mode: FileHandler (adn/utils/file_handler.py) and the batch drivers
\* (adn/commands/create.py).  File names are sequences of characters,
\* directories are sequences of path components.
\* ======================================================================

\* Longest batch handed to create_glob / create_default.
MaxBatch == 2

\* Number of driver invocations in one behaviour.
MaxRuns == 2

\* --------------------------------------------------------- clean_filename
\* invalid_chars = '<>:"/\\|?*'
InvalidChars == {"<", ">", ":", "\"", "/", "\\", "|", "?", "*"}

\* characters str.split() treats as separators
Whitespace == {" ", "\t"}

\* cleaned.replace(char, '_') for every invalid char
ReplaceInvalid(name) ==
  [i \in 1..Len(name) |-> IF name[i] \in InvalidChars THEN "_" ELSE name[i]]

RECURSIVE DropLeadingWs(_)
DropLeadingWs(name) ==
  IF name # <<>> /\ Head(name) \in Whitespace
    THEN DropLeadingWs(Tail(name)) ELSE name

RECURSIVE DropTrailingWs(_)
DropTrailingWs(name) ==
  IF name # <<>> /\ name[Len(name)] \in Whitespace
    THEN DropTrailingWs(SubSeq(name, 1, Len(name) - 1)) ELSE name

\* The positions of name that stay when each run of whitespace is joined
\* into one separator: the first position of every run, and all the others.
RunStarts(name) ==
  {i \in 1..Len(name) :
     ~(name[i] \in Whitespace /\ i > 1 /\ name[i - 1] \in Whitespace)}

\* ' '.join(cleaned.split()).replace(' ', '_')
CollapseWhitespace(name) ==
  LET stripped == DropTrailingWs(DropLeadingWs(name))
      keep == RunStarts(stripped)
      Nth(j) == CHOOSE i \in keep : Cardinality({m \in keep : m <= i}) = j
  IN [j \in 1..Cardinality(keep) |->
        IF stripped[Nth(j)] \in Whitespace THEN "_" ELSE stripped[Nth(j)]]

\* os.path.splitext: the extension starts at the last dot, unless only dots
\* precede it.
LastDot(name) ==
  LET dots == {i \in 1..Len(name) : name[i] = "."}
  IN IF dots = {} THEN 0 ELSE CHOOSE i \in dots : \A j \in dots : j <= i

SplitExt(name) ==
  LET d == LastDot(name)
  IN IF d = 0 \/ \A i \in 1..(d - 1) : name[i] = "."
       THEN [name |-> name, ext |-> <<>>]
       ELSE [name |-> SubSeq(name, 1, d - 1),
             ext |-> SubSeq(name, d, Len(name))]

\* Python's s[:n], n possibly negative
SliceTo(seq, n) ==
  IF n >= 0
    THEN SubSeq(seq, 1, IF n < Len(seq) THEN n ELSE Len(seq))
    ELSE SubSeq(seq, 1, IF Len(seq) + n > 0 THEN Len(seq) + n ELSE 0)

\* FileHandler.clean_filename with max_filename_length = max_length
CleanFilename(filename, max_length) ==
  LET cleaned == CollapseWhitespace(ReplaceInvalid(filename))
  IN IF Len(cleaned) > max_length
       THEN LET parts == SplitExt(cleaned)
            IN SliceTo(parts.name, max_length - Len(parts.ext)) \o parts.ext
       ELSE cleaned

\* ------------------------------------------------------ configured values
\* The value of max_filename_length as a number.
IntOf(v) == CASE v = "100" -> 100 [] v = "3" -> 3

\* The characters of an output_suffix value.
CharsOf(v) ==
  CASE v = "_extraccion" ->
         <<"_", "e", "x", "t", "r", "a", "c", "c", "i", "o", "n">>
    [] v = "_x" -> <<"_", "x">>

\* Path(default_output_dir): its components; "." has none.
DirOf(v) == CASE v = "." -> <<>> [] v = "notas" -> <<"notas">>

\* Configuration documents the generator may find.
GenConfigs ==
  {AbsentDoc,
   YamlDump(DictUpdate(DefaultConfig,
     [k \in {"default_output_dir", "output_suffix", "max_filename_length"} |->
        CASE k = "default_output_dir"  -> "notas"
          [] k = "output_suffix"       -> "_x"
          [] k = "max_filename_length" -> "3"]))}

\* ---------------------------------------------------------------- inputs
Docs  == <<"docs">>
Out   == <<"out">>
NoDir == <<"None">>

\* Path.cwd() of the process
Cwd == Docs

Pdf(dir, stem, ext, kind) ==
  [dir |-> dir, stem |-> stem, ext |-> ext, kind |-> kind]

\* kind: "valid" (starts with %PDF-), "badheader" (other content),
\* "empty" (zero bytes), "missing" (no such path)
InputFiles ==
  {Pdf(Docs,  <<"a", " ", "b">>, ".pdf", "valid"),
   Pdf(Docs,  <<"a", "_", "b">>, ".pdf", "valid"),
   Pdf(Docs,  <<"c">>,           ".pdf", "badheader"),
   Pdf(Docs,  <<"d">>,           ".pdf", "missing")}

NoPdf == Pdf(NoDir, <<>>, "", "missing")

PdfExists(pdf) == pdf.kind # "missing"

\* validators.validate_pdf_file
ValidatePdfFile(pdf) ==
  IF ~PdfExists(pdf) THEN FALSE
  ELSE IF pdf.ext # ".pdf" THEN FALSE
  ELSE IF pdf.kind \in {"badheader", "empty"} THEN FALSE
  ELSE TRUE

\* ------------------------------------------------------------- templates
TplNames == {"default", "roto", "csv_record"}

\* A file of the templates directory: kind "absent" (no such file), "ok"
\* (Jinja2 loads and renders it) or "broken" (Jinja2 raises on it).
TplFile(kind, text) == [kind |-> kind, text |-> text]

NoTemplate == TplFile("absent", "")

\* TemplateEngine._get_default_template_content
DefaultTemplateContent == TplFile("ok", "default_content")

CustomTemplate == TplFile("ok", "custom_content")
BrokenTemplate == TplFile("broken", "roto_content")

\* TemplateEngine._ensure_default_template
EnsureDefaultTemplate(t) ==
  IF t["default"].kind = "absent"
    THEN [t EXCEPT !["default"] = DefaultTemplateContent]
    ELSE t

\* The templates directory the generator runs with: default.md written by
\* TemplateEngine.__init__, roto.md with a syntax error, no other file.
TemplatesInit ==
  EnsureDefaultTemplate([n \in TplNames |->
                           IF n = "roto" THEN BrokenTemplate ELSE NoTemplate])

\* What env.get_template(f"{name}.md") finds in the templates directory.
TemplateStatus(name) ==
  IF name \in TplNames THEN tplFs[name].kind ELSE "absent"

TemplateArgs == {"None", "roto"}

\* TemplateEngine.render_template(template_name, pdf_file)
RenderTemplate(template_name, pdf) ==
  CASE TemplateStatus(template_name) = "absent" ->
         [result |-> "TemplateNotFound", content |-> <<>>]
    [] TemplateStatus(template_name) = "broken" ->
         [result |-> "TemplateSyntaxError", content |-> <<>>]
    [] OTHER ->
         [result |-> "ok", content |-> <<tplFs[template_name].text, pdf.stem>>]

\* TemplateEngine.get_template_content(template_name)
GetTemplateContent(template_name) ==
  IF TemplateStatus(template_name) = "absent"
    THEN IF template_name = "default"
           THEN [result |-> "ok", content |-> <<DefaultTemplateContent.text>>]
           ELSE [result |-> "FileNotFoundError", content |-> <<>>]
    ELSE [result |-> "ok", content |-> <<tplFs[template_name].text>>]

\* A TemplateEngine call and its outcome: content is the text returned (or,
\* for create_template, the text given), force the flag of create_template.
TplOp(op, name, result, content, force) ==
  [op |-> op, name |-> name, result |-> result, content |-> content,
   force |-> force]

\* The template names in the order sorted() puts them.
TplNameOrder == <<"csv_record", "default", "roto">>

TplRank(name) == CHOOSE i \in 1..Len(TplNameOrder) : TplNameOrder[i] = name

\* sorted(S), S a set of template names
RECURSIVE SortedNames(_)
SortedNames(S) ==
  IF S = {} THEN <<>>
  ELSE LET first == CHOOSE n \in S : \A o \in S : TplRank(n) <= TplRank(o)
       IN <<first>> \o SortedNames(S \ {first})

\* TemplateEngine.list_templates: the stems of the *.md files, sorted
ListTemplates ==
  SortedNames({n \in TplNames : tplFs[n].kind # "absent"})

OutPath(dir, name) == [dir |-> dir, name |-> name]
NoOutPath == OutPath(NoDir, <<>>)

GenOp(op, pdf, result, path) ==
  [op |-> op, pdf |-> pdf, result |-> result, path |-> path]

\* FileHandler._generate_output_filename, given the configuration in cfg
GenerateOutputFilename(cfg, pdf, output_dir) ==
  LET suffix == DictGet(cfg, "output_suffix", "_extraccion")
      max_length == IntOf(DictGet(cfg, "max_filename_length", "100"))
      clean_base == CleanFilename(pdf.stem, max_length)
  IN OutPath(output_dir, clean_base \o CharsOf(suffix) \o <<".", "m", "d">>)

\* The configuration get_config_value reads from: the effective mapping, or
\* the compiled-in defaults when there is no document.
ValuesOf(r) == IF r.result = "ok" THEN r.cfg ELSE DefaultConfig

\* FileHandler.is_processed
IsProcessed(f, c, files, pdf) ==
  GenerateOutputFilename(ValuesOf(GetConfig(f, c)), pdf, pdf.dir)
    \in DOMAIN files

Generate_RenderFirst(f, c, files, pdf, output_dir, template_name, force) ==
  LET r == GetConfig(f, c)
      cfg == ValuesOf(r)
      dir == IF output_dir = NoDir
               THEN pdf.dir \o DirOf(DictGet(cfg, "default_output_dir", "."))
               ELSE output_dir
      output_file == GenerateOutputFilename(cfg, pdf, dir)
      template == IF template_name = "None"
                    THEN DictGet(cfg, "default_template", "default")
                    ELSE template_name
      rendered == RenderTemplate(template, pdf)
  IN IF ~PdfExists(pdf)
       THEN [result |-> "FileNotFoundError", path |-> NoOutPath,
             files |-> files, cache |-> c]
     ELSE IF rendered.result # "ok"
       THEN [result |-> rendered.result, path |-> output_file,
             files |-> files, cache |-> r.cache]
     ELSE IF output_file \in DOMAIN files /\ ~force
       THEN [result |-> "FileExistsError", path |-> output_file,
             files |-> files, cache |-> r.cache]
     ELSE [result |-> "ok", path |-> output_file,
           files |-> [p \in (DOMAIN files) \cup {output_file} |->
                        IF p = output_file THEN rendered.content
                        ELSE files[p]],
           cache |-> r.cache]

\* FileHandler.generate_extraction_file: the exception or "ok", the output
\* path and the output files afterwards.
Generate(f, c, files, pdf, output_dir, template_name, force) ==
  LET r == GetConfig(f, c)
      cfg == ValuesOf(r)
      dir == IF output_dir = NoDir
               THEN pdf.dir \o DirOf(DictGet(cfg, "default_output_dir", "."))
               ELSE output_dir
      output_file == GenerateOutputFilename(cfg, pdf, dir)
      template == IF template_name = "None"
                    THEN DictGet(cfg, "default_template", "default")
                    ELSE template_name
      rendered == RenderTemplate(template, pdf)
  IN IF ~PdfExists(pdf)
       THEN [result |-> "FileNotFoundError", path |-> NoOutPath,
             files |-> files, cache |-> c]
     ELSE IF r.result \notin {"ok", "FileNotFoundError"}
       THEN [result |-> r.result, path |-> NoOutPath, files |-> files,
             cache |-> c]
     ELSE IF output_file \in DOMAIN files /\ ~force
       THEN [result |-> "FileExistsError", path |-> output_file,
             files |-> files, cache |-> r.cache]
     ELSE IF rendered.result # "ok"
       THEN [result |-> rendered.result, path |-> output_file,
             files |-> files, cache |-> r.cache]
     ELSE [result |-> "ok", path |-> output_file,
           files |-> [p \in (DOMAIN files) \cup {output_file} |->
                        IF p = output_file THEN rendered.content
                        ELSE files[p]],
           cache |-> r.cache]

\* --------------------------------------------------------------- CSV mode
\* CSVToMarkdownProcessor.REQUIRED_COLUMNS
REQUIRED_COLUMNS == {"source", "doi", "title", "abstract"}

\* The column names that occur, in the order sorted() puts them.
ColumnOrder ==
  <<"abstract", "another_column", "doi", "extra_column", "source", "title",
    "wrong_column">>

Columns == {ColumnOrder[i] : i \in 1..Len(ColumnOrder)}

Rank(c) == CHOOSE i \in 1..Len(ColumnOrder) : ColumnOrder[i] = c

\* sorted(S), S a set of column names
RECURSIVE Sorted(_)
Sorted(S) ==
  IF S = {} THEN <<>>
  ELSE LET first == CHOOSE c \in S : \A d \in S : Rank(c) <= Rank(d)
       IN <<first>> \o Sorted(S \ {first})

\* A cell csv.DictReader leaves at None: the row is shorter than the header.
NoneVal == <<"None">>

\* A CSV path. kind: "missing", "dir" (a directory), "unreadable" (open()
\* raises), "file". encoding: how the bytes of the file are encoded; a
\* "latin-1" file holds bytes that are not valid UTF-8. header: the column
\* names of the first line (none for a file of zero bytes). rows: the data
\* rows, each a mapping of the header's columns.
Csv(kind, encoding, header, rows) ==
  [kind |-> kind, encoding |-> encoding, header |-> header, rows |-> rows]

NoCsv == Csv("missing", "utf-8", {}, <<>>)

\* Whether open(csv_file, encoding=enc) followed by reading decodes.
Decodes(file, enc) ==
  CASE enc = "utf-8-sig" -> file.encoding \in {"utf-8", "utf-8-sig"}
    [] enc = "utf-8"     -> file.encoding \in {"utf-8", "utf-8-sig"}
    [] enc = "latin-1"   -> TRUE
    [] enc = "cp1252"    -> file.encoding \in {"utf-8", "utf-8-sig"}

\* The first of the encodings, tried in order, that decodes the file.
RECURSIVE FirstDecoding(_, _)
FirstDecoding(file, encodings) ==
  IF encodings = <<>> THEN "none"
  ELSE IF Decodes(file, Head(encodings)) THEN Head(encodings)
  ELSE FirstDecoding(file, Tail(encodings))

\* The message of validate_csv's ValueError for a header with these columns.
MissingColumnsMessage_AllRequired(columns) ==
  <<"Columnas requeridas faltantes">> \o Sorted(REQUIRED_COLUMNS)

MissingColumnsMessage(columns) ==
  <<"Columnas requeridas faltantes">> \o Sorted(REQUIRED_COLUMNS \ columns)

\* CSVToMarkdownProcessor.validate_csv: the exception or "ok", the message
\* of the exception and the columns returned.
ValidateCsv(file) ==
  LET columns == file.header
      missing_columns == REQUIRED_COLUMNS \ columns
      encoding == FirstDecoding(file, <<"utf-8-sig", "utf-8", "latin-1",
                                        "cp1252">>)
  IN CASE file.kind = "missing" ->
            [result |-> "FileNotFoundError",
             message |-> <<"Archivo CSV no encontrado">>, columns |-> {}]
       [] file.kind = "dir" ->
            [result |-> "ValueError",
             message |-> <<"La ruta no apunta a un archivo">>, columns |-> {}]
       [] file.kind = "unreadable" ->
            [result |-> "ValueError",
             message |-> <<"Error al leer el archivo CSV">>, columns |-> {}]
       [] encoding = "none" ->
            [result |-> "ValueError",
             message |-> <<"No se pudo leer el archivo CSV">>, columns |-> {}]
       [] missing_columns # {} ->
            [result |-> "ValueError",
             message |-> MissingColumnsMessage(columns), columns |-> {}]
       [] OTHER ->
            [result |-> "ok", message |-> <<>>, columns |-> columns]

\* CSVToMarkdownProcessor.read_csv_data: the rows, or ValueError when no
\* encoding gave any row.
ReadCsvData(file) ==
  LET encoding == FirstDecoding(file, <<"utf-8-sig", "utf-8", "latin-1",
                                        "cp1252">>)
      data == IF file.kind = "file" /\ encoding # "none"
                THEN file.rows ELSE <<>>
  IN IF data = <<>>
       THEN [result |-> "ValueError", data |-> <<>>]
       ELSE [result |-> "ok", data |-> data]

\* The characters str.strip() removes.
StripChars == {" ", "\t", "\n"}

\* str.strip()
RECURSIVE Strip(_)
Strip(v) ==
  IF v = <<>> THEN v
  ELSE IF Head(v) \in StripChars THEN Strip(Tail(v))
  ELSE IF v[Len(v)] \in StripChars THEN Strip(SubSeq(v, 1, Len(v) - 1))
  ELSE v

\* abstract.split('\n')
RECURSIVE SplitLines(_, _)
SplitLines(v, line) ==
  IF v = <<>> THEN <<line>>
  ELSE IF Head(v) = "\n" THEN <<line>> \o SplitLines(Tail(v), <<>>)
  ELSE SplitLines(Tail(v), Append(line, Head(v)))

\* '\n'.join(lines)
RECURSIVE JoinLines(_)
JoinLines(lines) ==
  IF Len(lines) = 1 THEN lines[1]
  ELSE lines[1] \o <<"\n">> \o JoinLines(Tail(lines))

\* abstract_formatted: every line stripped and indented by two spaces
FormatAbstract(abstract) ==
  IF abstract # <<>>
    THEN LET abstract_lines == SplitLines(abstract, <<>>)
         IN JoinLines([j \in 1..Len(abstract_lines) |->
                         IF Strip(abstract_lines[j]) # <<>>
                           THEN <<" ", " ">> \o Strip(abstract_lines[j])
                           ELSE <<" ", " ">>])
    ELSE <<" ", " ">>

\* The text of a note. form: "template" (csv_record.md rendered, text holds
\* the template) or "fallback" (the hardcoded note).
CsvNote(form, text, source, doi, title, abstract_formatted) ==
  [form |-> form, text |-> text, source |-> source, doi |-> doi,
   title |-> title, abstract_formatted |-> abstract_formatted]

NoNote == CsvNote("none", "", <<>>, <<>>, <<>>, <<>>)

\* record.get(column, '')
RecordGet(record, column) ==
  IF column \in DOMAIN record THEN record[column] ELSE <<>>

CreateMarkdownContent_NoFallback(record) ==
  IF \E c \in REQUIRED_COLUMNS : RecordGet(record, c) = NoneVal
    THEN [result |-> "AttributeError", content |-> NoNote]
    ELSE IF TemplateStatus("csv_record") = "ok"
      THEN [result |-> "ok",
            content |-> CsvNote("template", tplFs["csv_record"].text,
                                Strip(RecordGet(record, "source")),
                                Strip(RecordGet(record, "doi")),
                                Strip(RecordGet(record, "title")),
                                FormatAbstract(Strip(RecordGet(record,
                                                               "abstract"))))]
      ELSE [result |-> "TemplateError", content |-> NoNote]

\* CSVToMarkdownProcessor.create_markdown_content: None.strip() raises
\* AttributeError; a failing render of csv_record gives the hardcoded note.
CreateMarkdownContent(record) ==
  LET source == Strip(RecordGet(record, "source"))
      doi == Strip(RecordGet(record, "doi"))
      title == Strip(RecordGet(record, "title"))
      abstract == Strip(RecordGet(record, "abstract"))
  IN IF \E c \in REQUIRED_COLUMNS : RecordGet(record, c) = NoneVal
       THEN [result |-> "AttributeError", content |-> NoNote]
     ELSE IF TemplateStatus("csv_record") = "ok"
       THEN [result |-> "ok",
             content |-> CsvNote("template", tplFs["csv_record"].text,
                                 source, doi, title,
                                 FormatAbstract(abstract))]
     ELSE [result |-> "ok",
           content |-> CsvNote("fallback", "", source, doi, title,
                               FormatAbstract(abstract))]

DigitChars == <<"0", "1", "2", "3", "4", "5", "6", "7", "8", "9">>

\* str(n), n >= 0
RECURSIVE Digits(_)
Digits(n) ==
  IF n < 10 THEN <<DigitChars[n + 1]>>
  ELSE Digits(n \div 10) \o <<DigitChars[(n % 10) + 1]>>

RECURSIVE ZeroPad(_, _)
ZeroPad(d, width) ==
  IF Len(d) >= width THEN d ELSE ZeroPad(<<"0">> \o d, width)

Format03d_NoPad(n) ==
  IF n < 0 THEN <<"-">> \o Digits(0 - n) ELSE Digits(n)

\* f"{n:03d}": the sign counts in the width
Format03d(n) ==
  IF n < 0 THEN <<"-">> \o ZeroPad(Digits(0 - n), 2)
  ELSE ZeroPad(Digits(n), 3)

RowNumber_ByCreated(start_number, i, files_created) ==
  start_number + files_created

\* file_number of the row at index i of enumerate(data)
RowNumber(start_number, i, files_created) ==
  start_number + i

\* An entry of the output directory: a file with its text, or a directory.
OutFile(content) == [kind |-> "file", content |-> content]
OutDir == [kind |-> "dir", content |-> NoNote]

NoOutputs == [n \in {} |-> OutDir]

RowEntry(name, outcome) == [name |-> name, outcome |-> outcome]

\* The loop of process_csv from the row at index i on: the output directory
\* afterwards, files_created and the outcome of every row.
RECURSIVE ProcessRows(_, _, _, _, _, _)
ProcessRows(out, data, start_number, i, files_created, rowlog) ==
  IF i >= Len(data)
    THEN [out |-> out, files_created |-> files_created, rows |-> rowlog]
  ELSE
    LET file_number == RowNumber(start_number, i, files_created)
        filename == Format03d(file_number) \o <<".", "m", "d">>
        c == CreateMarkdownContent(data[i + 1])
    IN IF c.result # "ok"
         THEN ProcessRows(out, data, start_number, i + 1, files_created,
                          Append(rowlog, RowEntry(filename, c.result)))
       ELSE IF filename \in DOMAIN out /\ out[filename].kind = "dir"
         THEN ProcessRows(out, data, start_number, i + 1, files_created,
                          Append(rowlog,
                                 RowEntry(filename, "IsADirectoryError")))
       ELSE ProcessRows([n \in (DOMAIN out) \cup {filename} |->
                           IF n = filename THEN OutFile(c.content)
                           ELSE out[n]],
                        data, start_number, i + 1, files_created + 1,
                        Append(rowlog, RowEntry(filename, "written")))

ProcessCsv_NoValidation(out, file, start_number) ==
  LET r == ReadCsvData(file)
      done == ProcessRows(out, r.data, start_number, 0, 0, <<>>)
  IN IF r.result # "ok"
       THEN [result |-> r.result, ret |-> 0, out |-> out, rows |-> <<>>,
             message |-> <<"No se pudo leer el archivo CSV">>]
       ELSE [result |-> "ok", ret |-> done.files_created, out |-> done.out,
             rows |-> done.rows, message |-> <<>>]

\* CSVToMarkdownProcessor.process_csv: the exception or "ok", the value
\* returned, the output directory afterwards and the outcome of every row.
ProcessCsv(out, file, start_number) ==
  LET v == ValidateCsv(file)
      r == ReadCsvData(file)
      done == ProcessRows(out, r.data, start_number, 0, 0, <<>>)
  IN IF v.result # "ok"
       THEN [result |-> v.result, ret |-> 0, out |-> out, rows |-> <<>>,
             message |-> v.message]
     ELSE IF r.result # "ok"
       THEN [result |-> r.result, ret |-> 0, out |-> out, rows |-> <<>>,
             message |-> <<"No se pudo leer el archivo CSV">>]
     ELSE IF r.data = <<>>
       THEN [result |-> "ok", ret |-> 0, out |-> out, rows |-> <<>>,
             message |-> <<>>]
     ELSE [result |-> "ok", ret |-> done.files_created, out |-> done.out,
           rows |-> done.rows, message |-> <<>>]

\* A call in CSV mode and its outcome; seq numbers the calls.
CsvOp(seq, op, file, start, result, ret, message, columns, rows) ==
  [seq |-> seq, op |-> op, file |-> file, start |-> start,
   result |-> result, ret |-> ret, message |-> message,
   columns |-> columns, rows |-> rows]

NoCsvOp == CsvOp(0, "new", NoCsv, 0, "ok", 0, <<>>, {}, <<>>)

NoArgs == [output_dir |-> NoDir, template |-> "None", force |-> FALSE]

GenInit ==
  /\ fs \in {[FsInit EXCEPT ![ConfigFile] = doc] : doc \in GenConfigs}
  /\ clock = 0
  /\ cache = [m \in Managers |-> NoCache]
  /\ lastOp = Op("new", "m1", "ok", "", "", NoPath, FALSE, EmptyMap, "None")
  /\ snap = NoSnap
  /\ outFs = [p \in {} |-> <<>>]
  /\ genLast = GenOp("new", NoPdf, "ok", NoOutPath)
  /\ pc = "idle"
  /\ driver = "none"
  /\ batch = <<>>
  /\ idx = 1
  /\ args = NoArgs
  /\ success_count = 0
  /\ error_count = 0
  /\ log = <<>>
  /\ runs = 0
  /\ tplFs = TemplatesInit
  /\ tplLast = TplOp("new", "", "ok", <<>>, FALSE)
  /\ csvOut = NoOutputs
  /\ csvLast = NoCsvOp
  /\ csvRuns = 0
  /\ fnCall = NoCall

\* No driver is running.
Idle == pc = "idle"

generate_extraction_file_WriteFirst(pdf, output_dir, template_name, force) ==
  LET g == Generate(fs, cache["m1"], outFs, pdf, output_dir, template_name,
                    force)
      failed == g.result \in {"TemplateNotFound", "TemplateSyntaxError"}
  IN /\ Idle
     /\ outFs' = IF failed
                   THEN [p \in (DOMAIN outFs) \cup {g.path} |->
                           IF p = g.path THEN <<>> ELSE outFs[p]]
                   ELSE g.files
     /\ cache' = [cache EXCEPT !["m1"] = g.cache]
     /\ genLast' = GenOp("generate_extraction_file", pdf, g.result, g.path)
     /\ UNCHANGED extVars
     /\ UNCHANGED <<fs, clock, lastOp, snap, pc, driver, batch, idx, args,
                    success_count, error_count, log, runs>>

\* A direct call of FileHandler.generate_extraction_file.
generate_extraction_file(pdf, output_dir, template_name, force) ==
  LET g == Generate(fs, cache["m1"], outFs, pdf, output_dir, template_name,
                    force)
  IN /\ Idle
     /\ outFs' = g.files
     /\ cache' = [cache EXCEPT !["m1"] = g.cache]
     /\ genLast' = GenOp("generate_extraction_file", pdf, g.result, g.path)
     /\ UNCHANGED extVars
     /\ UNCHANGED <<fs, clock, lastOp, snap, pc, driver, batch, idx, args,
                    success_count, error_count, log, runs>>

\* The user deletes an output file.
delete_output(path) ==
  /\ Idle
  /\ path \in DOMAIN outFs
  /\ outFs' = [p \in (DOMAIN outFs) \ {path} |-> outFs[p]]
  /\ genLast' = GenOp("delete_output", NoPdf, "ok", path)
  /\ UNCHANGED extVars
  /\ UNCHANGED <<fs, clock, cache, lastOp, snap, pc, driver, batch, idx, args,
                 success_count, error_count, log, runs>>

\* -------------------------------------------------------- batch drivers
\* All orderings of a set of files.
Orderings(S) ==
  {q \in [1..Cardinality(S) -> S] :
     \A i, j \in 1..Cardinality(S) : i # j => q[i] # q[j]}

\* The batches of at most MaxBatch distinct files of S.
Batches(S) ==
  UNION {Orderings(T) : T \in {U \in SUBSET S : Cardinality(U) <= MaxBatch}}

\* FileHandler.find_pdf_files(directory, "*.pdf")
FindPdfFiles(directory) ==
  {pdf \in InputFiles :
     pdf.dir = directory /\ PdfExists(pdf) /\ pdf.ext = ".pdf"}

\* glob.glob(pattern) filtered on the .pdf ending
GlobFiles == {pdf \in InputFiles : PdfExists(pdf) /\ pdf.ext = ".pdf"}

Entry(pdf, outcome, existed) ==
  [pdf |-> pdf, outcome |-> outcome, existed |-> existed]

\* Whether the output of pdf in output_dir is on disk.
OutputExists(pdf, output_dir) ==
  GenerateOutputFilename(ValuesOf(GetConfig(fs, cache["m1"])), pdf,
                         output_dir) \in DOMAIN outFs

StartRun(name, files, output_dir, template, force) ==
  /\ runs < MaxRuns
  /\ runs' = runs + 1
  /\ driver' = name
  /\ batch' = files
  /\ idx' = 1
  /\ args' = [output_dir |-> output_dir, template |-> template,
              force |-> force]
  /\ success_count' = 0
  /\ error_count' = 0
  /\ log' = <<>>
  /\ pc' = IF files = <<>> THEN "done" ELSE "loop"

\* create_all up to its loop: find the files, drop the processed ones.
create_all_start(directory, output_dir, template, force, skip_processed) ==
  LET found == FindPdfFiles(directory)
      filtering == found # {} /\ skip_processed /\ ~force
      pending == IF filtering
                   THEN {pdf \in found :
                           ~IsProcessed(fs, cache["m1"], outFs, pdf)}
                   ELSE found
  IN /\ Idle
     /\ \E files \in Orderings(pending) :
          StartRun("create_all", files,
                   IF output_dir = NoDir THEN directory ELSE output_dir,
                   template, force)
     /\ cache' = IF filtering
                   THEN [cache EXCEPT !["m1"] = GetConfig(fs, cache["m1"]).cache]
                   ELSE cache
     /\ genLast' = GenOp("create_all", NoPdf, "ok", NoOutPath)
     /\ UNCHANGED extVars
     /\ UNCHANGED <<fs, clock, lastOp, snap, outFs>>

create_all_item_ExistsIsError ==
  LET pdf == batch[idx]
      g == Generate(fs, cache["m1"], outFs, pdf, args.output_dir,
                    args.template, args.force)
      outcome == CASE g.result = "ok" -> "written"
                   [] g.result = "FileExistsError" -> "exists"
                   [] OTHER -> "failed"
  IN /\ pc = "loop"
     /\ driver = "create_all"
     /\ outFs' = g.files
     /\ cache' = [cache EXCEPT !["m1"] = g.cache]
     /\ genLast' = GenOp("generate_extraction_file", pdf, g.result, g.path)
     /\ success_count' = IF outcome = "written"
                           THEN success_count + 1 ELSE success_count
     /\ error_count' = IF outcome \in {"failed", "exists"}
                         THEN error_count + 1 ELSE error_count
     /\ log' = Append(log, Entry(pdf, outcome,
                                 OutputExists(pdf, args.output_dir)))
     /\ idx' = idx + 1
     /\ pc' = IF idx = Len(batch) THEN "done" ELSE "loop"
     /\ UNCHANGED extVars
     /\ UNCHANGED <<fs, clock, lastOp, snap, driver, batch, args, runs>>

\* One iteration of the loop of create_all.
create_all_item ==
  LET pdf == batch[idx]
      g == Generate(fs, cache["m1"], outFs, pdf, args.output_dir,
                    args.template, args.force)
      outcome == CASE g.result = "ok" -> "written"
                   [] g.result = "FileExistsError" -> "exists"
                   [] OTHER -> "failed"
  IN /\ pc = "loop"
     /\ driver = "create_all"
     /\ outFs' = g.files
     /\ cache' = [cache EXCEPT !["m1"] = g.cache]
     /\ genLast' = GenOp("generate_extraction_file", pdf, g.result, g.path)
     /\ success_count' = IF outcome = "written"
                           THEN success_count + 1 ELSE success_count
     /\ error_count' = IF outcome = "failed"
                         THEN error_count + 1 ELSE error_count
     /\ log' = Append(log, Entry(pdf, outcome,
                                 OutputExists(pdf, args.output_dir)))
     /\ idx' = idx + 1
     /\ pc' = IF idx = Len(batch) THEN "done" ELSE "loop"
     /\ UNCHANGED extVars
     /\ UNCHANGED <<fs, clock, lastOp, snap, driver, batch, args, runs>>

\* create_glob up to its loop.
create_glob_start(files, output_dir, template, force) ==
  /\ Idle
  /\ StartRun("create_glob", files,
              IF output_dir = NoDir THEN Cwd ELSE output_dir, template, force)
  /\ genLast' = GenOp("create_glob", NoPdf, "ok", NoOutPath)
  /\ UNCHANGED extVars
  /\ UNCHANGED <<fs, clock, cache, lastOp, snap, outFs>>

\* One iteration of the loop of create_glob.
create_glob_item ==
  LET pdf == batch[idx]
      g == Generate(fs, cache["m1"], outFs, pdf, args.output_dir,
                    args.template, args.force)
      valid == ValidatePdfFile(pdf)
      outcome == CASE ~valid -> "invalid"
                   [] g.result = "ok" -> "written"
                   [] g.result = "FileExistsError" -> "exists"
                   [] OTHER -> "failed"
  IN /\ pc = "loop"
     /\ driver = "create_glob"
     /\ IF valid
          THEN /\ outFs' = g.files
               /\ cache' = [cache EXCEPT !["m1"] = g.cache]
               /\ genLast' = GenOp("generate_extraction_file", pdf, g.result,
                                   g.path)
          ELSE /\ genLast' = GenOp("validate_pdf_file", pdf, "False",
                                   NoOutPath)
               /\ UNCHANGED <<outFs, cache>>
     /\ success_count' = IF outcome = "written"
                           THEN success_count + 1 ELSE success_count
     /\ log' = Append(log, Entry(pdf, outcome,
                                 OutputExists(pdf, args.output_dir)))
     /\ idx' = idx + 1
     /\ pc' = IF idx = Len(batch) THEN "done" ELSE "loop"
     /\ UNCHANGED extVars
     /\ UNCHANGED <<fs, clock, lastOp, snap, driver, batch, args, error_count,
                    runs>>

\* create_default given a list of files, up to its loop.
create_default_start(files, output_dir, template, force) ==
  /\ Idle
  /\ StartRun("create_default", files, output_dir, template, force)
  /\ genLast' = GenOp("create_default", NoPdf, "ok", NoOutPath)
  /\ UNCHANGED extVars
  /\ UNCHANGED <<fs, clock, cache, lastOp, snap, outFs>>

\* One iteration of the loop of create_default: ctx.invoke(create_file, ...);
\* typer.Exit raised by create_file leaves the loop.
create_default_item ==
  LET pdf == batch[idx]
      output_directory == IF args.output_dir = NoDir
                            THEN pdf.dir ELSE args.output_dir
      g == Generate(fs, cache["m1"], outFs, pdf, output_directory,
                    args.template, args.force)
      valid == ValidatePdfFile(pdf)
      outcome == CASE ~valid -> "invalid"
                   [] g.result = "ok" -> "written"
                   [] g.result = "FileExistsError" -> "exists"
                   [] OTHER -> "failed"
  IN /\ pc = "loop"
     /\ driver = "create_default"
     /\ IF valid
          THEN /\ outFs' = g.files
               /\ cache' = [cache EXCEPT !["m1"] = g.cache]
               /\ genLast' = GenOp("generate_extraction_file", pdf, g.result,
                                   g.path)
          ELSE /\ genLast' = GenOp("validate_pdf_file", pdf, "False",
                                   NoOutPath)
               /\ UNCHANGED <<outFs, cache>>
     /\ log' = Append(log, Entry(pdf, outcome,
                                 OutputExists(pdf, output_directory)))
     /\ idx' = idx + 1
     /\ pc' = IF outcome # "written" THEN "aborted"
              ELSE IF idx = Len(batch) THEN "done" ELSE "loop"
     /\ UNCHANGED extVars
     /\ UNCHANGED <<fs, clock, lastOp, snap, driver, batch, args,
                    success_count, error_count, runs>>

GlobBatches == Batches(GlobFiles)
DefaultBatches == Batches(InputFiles)

\* The driver returns (or exits) and its local variables are gone.
driver_return ==
  /\ pc \in {"done", "aborted"}
  /\ pc' = "idle"
  /\ driver' = "none"
  /\ batch' = <<>>
  /\ idx' = 1
  /\ args' = NoArgs
  /\ success_count' = 0
  /\ error_count' = 0
  /\ log' = <<>>
  /\ genLast' = GenOp("return", NoPdf, "ok", NoOutPath)
  /\ UNCHANGED extVars
  /\ UNCHANGED <<fs, clock, cache, lastOp, snap, outFs, runs>>

\* The output directories the callers pass (None: not given).
OutputDirArgs == {NoDir, Out}

\* Direct use of FileHandler.
\* The --template values of a direct call: also a template with no file.
GenTemplateArgs == TemplateArgs \cup {"no_existe"}

GenNext ==
  \/ \E pdf \in InputFiles, output_dir \in OutputDirArgs,
        template \in GenTemplateArgs, force \in BOOLEAN :
       generate_extraction_file(pdf, output_dir, template, force)
  \/ \E path \in DOMAIN outFs : delete_output(path)

SpecGen == GenInit /\ [][GenNext]_vars

\* The batch drivers of the create command.
BatchNext ==
  \/ \E directory \in {Docs}, output_dir \in OutputDirArgs,
        template \in TemplateArgs, force \in BOOLEAN,
        skip_processed \in BOOLEAN :
       create_all_start(directory, output_dir, template, force,
                        skip_processed)
  \/ create_all_item
  \/ \E files \in GlobBatches, output_dir \in OutputDirArgs,
        template \in TemplateArgs, force \in BOOLEAN :
       create_glob_start(files, output_dir, template, force)
  \/ create_glob_item
  \/ \E files \in DefaultBatches, output_dir \in OutputDirArgs,
        template \in TemplateArgs, force \in BOOLEAN :
       create_default_start(files, output_dir, template, force)
  \/ create_default_item
  \/ driver_return

SpecBatch == GenInit /\ [][BatchNext]_vars

\* ------------------------------------------------------- template engine
\* TemplateEngine(): __init__ makes sure default.md exists.
new_engine ==
  /\ tplFs' = EnsureDefaultTemplate(tplFs)
  /\ tplLast' = TplOp("TemplateEngine", "", "ok", <<>>, FALSE)
  /\ UNCHANGED <<csvOut, csvLast, csvRuns, fnCall>>
  /\ UNCHANGED cfgVars
  /\ UNCHANGED genVars

get_template_content(template_name) ==
  LET r == GetTemplateContent(template_name)
  IN /\ tplLast' = TplOp("get_template_content", template_name, r.result,
                         r.content, FALSE)
     /\ UNCHANGED <<tplFs, csvOut, csvLast, csvRuns, fnCall>>
     /\ UNCHANGED cfgVars
     /\ UNCHANGED genVars

render_template(template_name, pdf) ==
  LET r == RenderTemplate(template_name, pdf)
  IN /\ tplLast' = TplOp("render_template", template_name, r.result,
                         r.content, FALSE)
     /\ UNCHANGED <<tplFs, csvOut, csvLast, csvRuns, fnCall>>
     /\ UNCHANGED cfgVars
     /\ UNCHANGED genVars

create_template_IgnoresExists(name, content, force) ==
  /\ tplFs' = [tplFs EXCEPT ![name] = content]
  /\ tplLast' = TplOp("create_template", name, "ok", <<content.text>>, force)
  /\ UNCHANGED <<csvOut, csvLast, csvRuns, fnCall>>
  /\ UNCHANGED cfgVars
  /\ UNCHANGED genVars

\* TemplateEngine.create_template(name, content, force)
create_template(name, content, force) ==
  /\ IF tplFs[name].kind # "absent" /\ ~force
       THEN /\ tplLast' = TplOp("create_template", name, "FileExistsError",
                                <<content.text>>, force)
            /\ UNCHANGED tplFs
       ELSE /\ tplFs' = [tplFs EXCEPT ![name] = content]
            /\ tplLast' = TplOp("create_template", name, "ok",
                                <<content.text>>, force)
  /\ UNCHANGED <<csvOut, csvLast, csvRuns, fnCall>>
  /\ UNCHANGED cfgVars
  /\ UNCHANGED genVars

list_templates ==
  /\ tplLast' = TplOp("list_templates", "", "ok", ListTemplates, FALSE)
  /\ UNCHANGED <<tplFs, csvOut, csvLast, csvRuns, fnCall>>
  /\ UNCHANGED cfgVars
  /\ UNCHANGED genVars

\* The user deletes a file of the templates directory.
remove_template(name) ==
  /\ tplFs[name].kind # "absent"
  /\ tplFs' = [tplFs EXCEPT ![name] = NoTemplate]
  /\ tplLast' = TplOp("remove_template", name, "ok", <<>>, FALSE)
  /\ UNCHANGED <<csvOut, csvLast, csvRuns, fnCall>>
  /\ UNCHANGED cfgVars
  /\ UNCHANGED genVars

\* The contents create_template is called with.
TplContents == {CustomTemplate, BrokenTemplate}

\* The PDF render_template is called for.
TplPdfs == {pdf \in InputFiles : pdf.kind = "valid"}

\* The state after the first TemplateEngine() on an empty templates
\* directory.
TplInit ==
  /\ fs = FsInit
  /\ clock = 0
  /\ cache = [m \in Managers |-> NoCache]
  /\ lastOp = Op("new", "m1", "ok", "", "", NoPath, FALSE, EmptyMap, "None")
  /\ snap = NoSnap
  /\ outFs = [p \in {} |-> <<>>]
  /\ genLast = GenOp("new", NoPdf, "ok", NoOutPath)
  /\ pc = "idle"
  /\ driver = "none"
  /\ batch = <<>>
  /\ idx = 1
  /\ args = NoArgs
  /\ success_count = 0
  /\ error_count = 0
  /\ log = <<>>
  /\ runs = 0
  /\ tplFs = EnsureDefaultTemplate([n \in TplNames |-> NoTemplate])
  /\ tplLast = TplOp("TemplateEngine", "", "ok", <<>>, FALSE)
  /\ csvOut = NoOutputs
  /\ csvLast = NoCsvOp
  /\ csvRuns = 0
  /\ fnCall = NoCall

TplNext ==
  \/ new_engine
  \/ \E name \in TplNames : get_template_content(name)
  \/ \E name \in TplNames, pdf \in TplPdfs : render_template(name, pdf)
  \/ \E name \in TplNames, content \in TplContents, force \in BOOLEAN :
       create_template(name, content, force)
  \/ list_templates
  \/ \E name \in TplNames : remove_template(name)

SpecTpl == TplInit /\ [][TplNext]_vars

\* ------------------------------------------------------- CSV processor
MaxCsvRuns == 1

validate_csv(csv_file) ==
  LET v == ValidateCsv(csv_file)
  IN /\ csvRuns < MaxCsvRuns
     /\ csvRuns' = csvRuns + 1
     /\ csvLast' = CsvOp(csvRuns + 1, "validate_csv", csv_file, 0, v.result,
                         0, v.message, v.columns, <<>>)
     /\ UNCHANGED <<tplFs, tplLast, csvOut, fnCall>>
     /\ UNCHANGED cfgVars
     /\ UNCHANGED genVars

process_csv(csv_file, start_number) ==
  LET r == ProcessCsv(csvOut, csv_file, start_number)
  IN /\ csvRuns < MaxCsvRuns
     /\ csvRuns' = csvRuns + 1
     /\ csvOut' = r.out
     /\ csvLast' = CsvOp(csvRuns + 1, "process_csv", csv_file, start_number,
                         r.result, r.ret, r.message, {}, r.rows)
     /\ UNCHANGED <<tplFs, tplLast, fnCall>>
     /\ UNCHANGED cfgVars
     /\ UNCHANGED genVars

\* Paths find_pdf_files may be given: a directory, a path that does not
\* exist, a regular file.
NoExisteDir == <<"no_existe">>
FileAsDir == Docs \o <<"c.pdf">>

DirKind(directory) ==
  CASE directory \in {Docs, Out} -> "dir"
    [] directory = FileAsDir     -> "file"
    [] OTHER                     -> "missing"

\* The exception find_pdf_files raises for directory, or "ok".
FindPdfFilesResult(directory) ==
  IF DirKind(directory) = "missing" THEN "FileNotFoundError"
  ELSE IF DirKind(directory) # "dir" THEN "ValueError"
  ELSE "ok"

\* A direct call of FileHandler.find_pdf_files.
find_pdf_files(directory) ==
  /\ csvRuns < MaxCsvRuns
  /\ csvRuns' = csvRuns + 1
  /\ genLast' = GenOp("find_pdf_files", NoPdf, FindPdfFilesResult(directory),
                      OutPath(directory, <<>>))
  /\ UNCHANGED <<outFs, pc, driver, batch, idx, args, success_count,
                 error_count, log, runs>>
  /\ UNCHANGED cfgVars
  /\ UNCHANGED <<tplFs, tplLast, csvOut, csvLast, fnCall>>

\* Rows of the CSV files: one well-formed, one with surrounding blanks and
\* an abstract of two lines, one shorter than the header.
RowA(header) == [c \in header |-> <<"A", c>>]

RowB(header) ==
  [c \in header |-> IF c = "abstract" THEN <<"B", "\n", " ", "x", " ">>
                    ELSE <<" ", "B", c, " ">>]

RowShort(header) ==
  [c \in header |-> IF c = "source" THEN <<"S", c>> ELSE NoneVal]

\* One file per header over the required columns and one extra column, and
\* the files that differ in kind, encoding and rows.
CsvFiles ==
  {Csv("file", "utf-8", h, IF h = {} THEN <<>> ELSE <<RowA(h)>>) :
     h \in SUBSET (REQUIRED_COLUMNS \cup {"extra_column"})}
  \cup
  {NoCsv,
   Csv("dir", "utf-8", {}, <<>>),
   Csv("unreadable", "utf-8", REQUIRED_COLUMNS, <<RowA(REQUIRED_COLUMNS)>>),
   Csv("file", "utf-8", {"wrong_column", "another_column"},
       <<RowA({"wrong_column", "another_column"})>>),
   Csv("file", "utf-8", REQUIRED_COLUMNS, <<>>),
   Csv("file", "utf-8-sig", REQUIRED_COLUMNS,
       <<RowA(REQUIRED_COLUMNS), RowB(REQUIRED_COLUMNS)>>),
   Csv("file", "latin-1", REQUIRED_COLUMNS,
       <<RowA(REQUIRED_COLUMNS), RowShort(REQUIRED_COLUMNS),
         RowB(REQUIRED_COLUMNS)>>)}

\* The files process_csv is called with: the files that are not plain
\* UTF-8 files of one row, and two of those, one of them valid.
ProcessFiles ==
  {f \in CsvFiles :
     \/ f.kind # "file" \/ f.encoding # "utf-8" \/ Len(f.rows) # 1
     \/ f.header \in {REQUIRED_COLUMNS, REQUIRED_COLUMNS \ {"doi"},
                       {"wrong_column", "another_column"}}}

StartNumbers == {0, 1, 10, 999}

OldNote == CsvNote("fallback", "", <<"o">>, <<"o">>, <<"o">>, <<" ", " ">>)

\* The output directory before the first call: empty, holding an older
\* 000.md, or holding a directory named 001.md.
CsvOutInits ==
  {NoOutputs,
   [n \in {<<"0", "0", "0", ".", "m", "d">>} |-> OutFile(OldNote)],
   [n \in {<<"0", "0", "1", ".", "m", "d">>} |-> OutDir]}

\* The state after CSVToMarkdownProcessor(output_dir): the templates
\* directory holds default.md, and csv_record.md is absent, usable or broken.
CsvInit ==
  /\ fs = FsInit
  /\ clock = 0
  /\ cache = [m \in Managers |-> NoCache]
  /\ lastOp = Op("new", "m1", "ok", "", "", NoPath, FALSE, EmptyMap, "None")
  /\ snap = NoSnap
  /\ outFs = [p \in {} |-> <<>>]
  /\ genLast = GenOp("new", NoPdf, "ok", NoOutPath)
  /\ pc = "idle"
  /\ driver = "none"
  /\ batch = <<>>
  /\ idx = 1
  /\ args = NoArgs
  /\ success_count = 0
  /\ error_count = 0
  /\ log = <<>>
  /\ runs = 0
  /\ tplFs \in {[n \in TplNames |->
                    IF n = "csv_record" THEN t ELSE TemplatesInit[n]] :
                  t \in {NoTemplate, CustomTemplate, BrokenTemplate}}
  /\ tplLast = TplOp("TemplateEngine", "", "ok", <<>>, FALSE)
  /\ csvOut \in CsvOutInits
  /\ csvLast = NoCsvOp
  /\ csvRuns = 0
  /\ fnCall = NoCall

\* CSV mode, and the directory scan of PDF mode.
CsvNext ==
  \/ \E csv_file \in CsvFiles : validate_csv(csv_file)
  \/ \E csv_file \in ProcessFiles, start_number \in StartNumbers :
       process_csv(csv_file, start_number)
  \/ \E directory \in {Docs, NoExisteDir, FileAsDir} :
       find_pdf_files(directory)

SpecCsv == CsvInit /\ [][CsvNext]_vars

\* The configuration store on its own: no generation is going on.
CfgInit ==
  /\ fs = FsInit
  /\ clock = 0
  /\ cache = [m \in Managers |-> NoCache]
  /\ lastOp = Op("new", "m1", "ok", "", "", NoPath, FALSE, EmptyMap, "None")
  /\ snap = NoSnap
  /\ outFs = [p \in {} |-> <<>>]
  /\ genLast = GenOp("new", NoPdf, "ok", NoOutPath)
  /\ pc = "idle"
  /\ driver = "none"
  /\ batch = <<>>
  /\ idx = 1
  /\ args = NoArgs
  /\ success_count = 0
  /\ error_count = 0
  /\ log = <<>>
  /\ runs = 0
  /\ tplFs = TemplatesInit
  /\ tplLast = TplOp("new", "", "ok", <<>>, FALSE)
  /\ csvOut = NoOutputs
  /\ csvLast = NoCsvOp
  /\ csvRuns = 0
  /\ fnCall = NoCall

Spec == CfgInit /\ [][CfgNext]_vars

\* Two ConfigManager instances over the same config.yaml: each component
\* (FileHandler, TemplateEngine, every config command) constructs its own.
SharedNext ==
  \/ \E m \in Managers, force \in BOOLEAN : init_config(m, force)
  \/ \E m \in Managers : get_config(m)
  \/ \E m \in Managers, value \in SetValues :
       set_config(m, "default_template", value)
  \/ \E m \in Managers, default \in Fallbacks :
       get_config_value(m, "default_template", default)
  \/ \E m \in Managers : reset_config(m)
  \/ \E m \in Managers : backup_config(m)
  \/ \E m \in Managers, b \in {BackupFile(0), PartialYaml} :
       restore_config(m, b)

SpecShared == CfgInit /\ [][SharedNext]_vars

\* A step that is a call of operation op (Tick is the only step that is not
\* a call, and the only one that moves the clock).
Call(op) == lastOp'.op = op /\ clock' = clock

\* What get_config() of manager m would return in the current state.
Effective(m) == GetConfig(fs, cache[m])

\* The persisted override of key k, or its compiled-in default.
Overlay(doc, k) ==
  IF doc.kind = "map" /\ k \in DOMAIN doc.entries
    THEN doc.entries[k] ELSE DefaultConfig[k]

\* ======================================================================
\* Pure helpers: TemplateEngine._prepare_context and _filesize_filter,
\* FileHandler.clean_filename, validators.sanitize_filename.  A call is drawn
\* with its arguments in the initial state and made by one step.

\* ------------------------------------------------------ _prepare_context
\* The keys of the source file ('tamaño_archivo' is written without the
\* tilde here).
SourceKeys ==
  {"nombre_archivo", "nombre_completo", "ruta_archivo", "tamano_archivo"}

DerivedKeys == {"fecha_actual", "version_adn"}

\* Values of the context are texts, kept as sequences.
DerivedValue(k) ==
  IF k = "fecha_actual" THEN <<"datetime.now()">> ELSE <<"1.0.0">>

SourceValue(pdf_file, k) ==
  CASE k = "nombre_archivo" -> pdf_file.stem
    [] k = "nombre_completo" -> pdf_file.stem \o <<pdf_file.ext>>
    [] k = "ruta_archivo" ->
         pdf_file.dir \o <<"/">> \o pdf_file.stem \o <<pdf_file.ext>>
    [] k = "tamano_archivo" ->
         IF PdfExists(pdf_file) THEN <<"st_size">> ELSE <<"0">>

\* The keys a caller passes as keyword arguments, and the value it gives.
KwargKeys == {"version_adn", "nombre_archivo", "tamano_archivo", "autor"}
KwargValue == <<"Juan">>
Kwargs == {[k \in K |-> KwargValue] : K \in SUBSET KwargKeys}

\* pdf_file: a path, or None (NoPdf)
PdfArgs == InputFiles \cup {NoPdf}

PrepareContext_KwargsFirst(pdf_file, kwargs) ==
  LET derived == [k \in DerivedKeys |-> DerivedValue(k)]
      context == DictUpdate(derived, kwargs)
  IN IF pdf_file # NoPdf
       THEN DictUpdate(context, [k \in SourceKeys |-> SourceValue(pdf_file, k)])
       ELSE context

\* TemplateEngine._prepare_context(pdf_file, **kwargs)
PrepareContext(pdf_file, kwargs) ==
  LET derived == [k \in DerivedKeys |-> DerivedValue(k)]
      context == IF pdf_file # NoPdf
                   THEN DictUpdate(derived,
                          [k \in SourceKeys |-> SourceValue(pdf_file, k)])
                   ELSE derived
  IN DictUpdate(context, kwargs)

PrepareContextCalls ==
  {[op |-> "prepare_context", done |-> FALSE, pdf_file |-> pdf,
    kwargs |-> kw, out |-> EmptyMap] : pdf \in PdfArgs, kw \in Kwargs}

prepare_context ==
  /\ fnCall.op = "prepare_context"
  /\ ~fnCall.done
  /\ fnCall' = [fnCall EXCEPT
                  !.out = PrepareContext(fnCall.pdf_file, fnCall.kwargs),
                  !.done = TRUE]
  /\ UNCHANGED <<tplFs, tplLast, csvOut, csvLast, csvRuns>>
  /\ UNCHANGED cfgVars
  /\ UNCHANGED genVars

\* ------------------------------------- clean_filename, sanitize_filename
\* sanitized.strip('.')
RECURSIVE StripDots(_)
StripDots(name) ==
  IF name = <<>> THEN name
  ELSE IF Head(name) = "." THEN StripDots(Tail(name))
  ELSE IF name[Len(name)] = "."
    THEN StripDots(SubSeq(name, 1, Len(name) - 1))
  ELSE name

\* The length sanitize_filename cuts names to.
SanitizeMaxLength == 100

\* validators.sanitize_filename
SanitizeFilename(filename) ==
  LET sanitized == StripDots(CollapseWhitespace(ReplaceInvalid(filename)))
  IN IF Len(sanitized) > SanitizeMaxLength
       THEN LET parts == SplitExt(sanitized)
            IN SliceTo(parts.name, SanitizeMaxLength - Len(parts.ext))
                 \o parts.ext
       ELSE sanitized

\* Names given to the sanitizers: every name of at most MaxNameLen
\* characters over NameChars, and some names longer than the limits.
MaxNameLen == 5
NameChars == {"a", ".", " ", "<"}
ShortNames == UNION {[1..n -> NameChars] : n \in 0..MaxNameLen}

Rep(c, n) == [i \in 1..n |-> c]

LongNames ==
  {Rep("a", 101) \o <<".", "p", "d", "f">>,
   Rep("a", 50) \o <<" ", "\t">> \o Rep("a", 60) \o <<".", "p", "d", "f">>,
   <<"a", ".">> \o Rep("b", 12),
   <<"a", ".">> \o Rep("b", 98),
   <<"a", ".">> \o Rep("b", 99),
   <<"a", ".">> \o Rep("b", 100)}

Names == ShortNames \cup LongNames

\* Values of max_filename_length found in config.yaml.
MaxLengths == {3, 10, 100}

CleanFilenameCalls ==
  {[op |-> "clean_filename", done |-> FALSE, filename |-> x,
    max_length |-> n, out |-> <<>>] : x \in Names, n \in MaxLengths}

SanitizeFilenameCalls ==
  {[op |-> "sanitize_filename", done |-> FALSE, filename |-> x,
    max_length |-> SanitizeMaxLength, out |-> <<>>] : x \in Names}

clean_filename ==
  /\ fnCall.op = "clean_filename"
  /\ ~fnCall.done
  /\ fnCall' = [fnCall EXCEPT
                  !.out = CleanFilename(fnCall.filename, fnCall.max_length),
                  !.done = TRUE]
  /\ UNCHANGED <<tplFs, tplLast, csvOut, csvLast, csvRuns>>
  /\ UNCHANGED cfgVars
  /\ UNCHANGED genVars

sanitize_filename ==
  /\ fnCall.op = "sanitize_filename"
  /\ ~fnCall.done
  /\ fnCall' = [fnCall EXCEPT !.out = SanitizeFilename(fnCall.filename),
                              !.done = TRUE]
  /\ UNCHANGED <<tplFs, tplLast, csvOut, csvLast, csvRuns>>
  /\ UNCHANGED cfgVars
  /\ UNCHANGED genVars

\* ------------------------------------------------------ _filesize_filter
\* A byte count is kept in base 1024, lowest digit first, so that counts
\* beyond 2^31 can be given: d stands for the sum of d[i] * 1024^(i-1).
NumDigits == 5
DigitValues == {0, 1, 256, 512, 1023}
ByteCounts == [1..NumDigits -> DigitValues]

Units == <<"B", "KB", "MB", "GB">>

\* size_bytes < 1024.0 after k divisions by 1024.0
Below1024(d, k) == \A i \in (k + 2)..Len(d) : d[i] = 0

\* The whole part of d / 1024^k
RECURSIVE Whole(_, _, _)
Whole(d, k, i) ==
  IF i > Len(d) THEN 0
  ELSE (IF i = k + 1 \/ d[i] = 0 THEN d[i] ELSE d[i] * 1024 ^ (i - k - 1))
         + Whole(d, k, i + 1)

\* f"{size_bytes:.1f}" after k divisions by 1024.0, in tenths: the exact
\* quotient rounded to one decimal, a tie going to the even neighbour.
OneDecimal(d, k) ==
  LET f1 == IF k >= 1 THEN d[k] ELSE 0
      f2 == IF k >= 2 THEN d[k - 1] ELSE 0
      sticky == \E i \in 1..(k - 2) : d[i] # 0
      scaled == 10 * (f1 * 1024 + f2)
      q == scaled \div (1024 * 1024)
      r == scaled % (1024 * 1024)
      down == 10 * Whole(d, k, k + 1) + q
  IN IF 2 * r > 1024 * 1024 \/ (2 * r = 1024 * 1024 /\ sticky)
       THEN down + 1
     ELSE IF 2 * r = 1024 * 1024 THEN down + (down % 2)
     ELSE down

FileSize(tenths, unit, text) ==
  [tenths |-> tenths, unit |-> unit, text |-> text]

\* The loop of _filesize_filter from its k-th unit on.
RECURSIVE FilesizeLoop(_, _)
FilesizeLoop(d, k) ==
  IF k >= Len(Units) THEN FileSize(OneDecimal(d, k), "TB", "")
  ELSE IF Below1024(d, k) THEN FileSize(OneDecimal(d, k), Units[k + 1], "")
  ELSE FilesizeLoop(d, k + 1)

\* An argument of the filter: an integer, or a text.
IntArg(d) == [kind |-> "int", digits |-> d, text |-> ""]
StrArg(text) == [kind |-> "str", digits |-> <<>>, text |-> text]

\* TemplateEngine._filesize_filter(size_bytes)
FilesizeFilter(size_bytes) ==
  IF size_bytes.kind # "int"
    THEN FileSize(0, "", size_bytes.text)
    ELSE FilesizeLoop(size_bytes.digits, 0)

FilesizeFilterCalls ==
  {[op |-> "filesize_filter", done |-> FALSE, size_bytes |-> a,
    out |-> FileSize(0, "", "")] :
     a \in {IntArg(d) : d \in ByteCounts} \cup {StrArg("invalid")}}

filesize_filter ==
  /\ fnCall.op = "filesize_filter"
  /\ ~fnCall.done
  /\ fnCall' = [fnCall EXCEPT !.out = FilesizeFilter(fnCall.size_bytes),
                              !.done = TRUE]
  /\ UNCHANGED <<tplFs, tplLast, csvOut, csvLast, csvRuns>>
  /\ UNCHANGED cfgVars
  /\ UNCHANGED genVars

\* ------------------------------------------------------------ the calls
FnInit ==
  /\ fs = FsInit
  /\ clock = 0
  /\ cache = [m \in Managers |-> NoCache]
  /\ lastOp = Op("new", "m1", "ok", "", "", NoPath, FALSE, EmptyMap, "None")
  /\ snap = NoSnap
  /\ outFs = [p \in {} |-> <<>>]
  /\ genLast = GenOp("new", NoPdf, "ok", NoOutPath)
  /\ pc = "idle"
  /\ driver = "none"
  /\ batch = <<>>
  /\ idx = 1
  /\ args = NoArgs
  /\ success_count = 0
  /\ error_count = 0
  /\ log = <<>>
  /\ runs = 0
  /\ tplFs = TemplatesInit
  /\ tplLast = TplOp("new", "", "ok", <<>>, FALSE)
  /\ csvOut = NoOutputs
  /\ csvLast = NoCsvOp
  /\ csvRuns = 0
  /\ \/ fnCall \in PrepareContextCalls
     \/ fnCall \in CleanFilenameCalls
     \/ fnCall \in SanitizeFilenameCalls
     \/ fnCall \in FilesizeFilterCalls

FnNext ==
  \/ prepare_context
  \/ clean_filename
  \/ sanitize_filename
  \/ filesize_filter

SpecFn == FnInit /\ [][FnNext]_vars

\* ------------------------------------------------------------------ claims

\* C1: after backup_config() returned b, then set_config calls, then
\* restore_config(b), get_config() returns the effective configuration that
\* held when backup_config() was called, also within one clock second.
C1_BackupRestoreRoundTrip ==
  (snap.active /\ snap.restored) =>
     /\ Effective("m1").result = "ok"
     /\ Effective("m1").cfg = snap.cfg

\* C2: once a backup file exists, no later operation changes its contents.
C2_BackupsImmutable ==
  [][\A p \in BackupPaths : Exists(fs, p) => fs'[p] = fs[p]]_vars

\* C3: restore_config raises FileNotFoundError on a missing backup and
\* ValueError on a backup that does not parse, and in both cases leaves the
\* persisted document, the backup files and the cache as they were.
C3_RestoreFailureIsClean ==
  [][(Call("restore_config")
        /\ fs[lastOp'.file].kind \in {"absent", "garbage"}) =>
       /\ lastOp'.result = IF fs[lastOp'.file].kind = "absent"
                             THEN "FileNotFoundError" ELSE "ValueError"
       /\ UNCHANGED <<fs, cache>>]_vars

C3_Witness ==
  /\ lastOp.op = "restore_config"
  /\ lastOp.result = "ValueError"
  /\ Exists(fs, ConfigFile)
  /\ Exists(fs, BackupFile(0))
  /\ cache["m1"].loaded

\* C4: with no persisted document get_config_value(k) returns the default of
\* every known key k; after a completed set_config(k, v), get_config()[k] = v.
C4_DefaultsAndSet ==
  /\ (lastOp.op = "get_config_value" /\ ~Exists(fs, ConfigFile)
        /\ lastOp.key \in KnownKeys) =>
       (lastOp.result = "ok" /\ lastOp.retVal = DefaultConfig[lastOp.key])
  /\ (lastOp.op = "set_config" /\ lastOp.result = "ok") =>
       /\ Effective(lastOp.mgr).result = "ok"
       /\ lastOp.key \in DOMAIN Effective(lastOp.mgr).cfg
       /\ Effective(lastOp.mgr).cfg[lastOp.key] = lastOp.val

C4_Witness ==
  /\ lastOp.op = "set_config"
  /\ lastOp.result = "ok"
  /\ lastOp.key = "default_template"
  /\ lastOp.val = "modificado"
  /\ Exists(fs, BackupFile(0))
  /\ fs[BackupFile(0)].entries["default_template"] = "original"

\* C5: get_config_value never raises, whatever the persisted document is.
C5_GetConfigValueNeverFails ==
  lastOp.op = "get_config_value" => lastOp.result = "ok"

\* C6: init_config(force=False) on an existing document raises
\* FileExistsError and leaves the document unchanged; init_config(force=True)
\* and reset_config() succeed and get_config() then equals the defaults.
C6_InitAndReset ==
  [][/\ (Call("init_config") /\ ~lastOp'.force /\ Exists(fs, ConfigFile)) =>
          (lastOp'.result = "FileExistsError" /\ fs' = fs)
     /\ ((Call("init_config") /\ lastOp'.force) \/ Call("reset_config")) =>
          /\ lastOp'.result = "ok"
          /\ GetConfig(fs', cache'[lastOp'.mgr]).result = "ok"
          /\ GetConfig(fs', cache'[lastOp'.mgr]).cfg = DefaultConfig]_vars

C6_Witness ==
  /\ lastOp.op = "init_config"
  /\ lastOp.force
  /\ lastOp.result = "ok"
  /\ Exists(fs, BackupFile(0))
  /\ "test_key" \in DOMAIN fs[BackupFile(0)].entries

\* C7: every successful get_config() holds all nine known keys, each equal to
\* its persisted override if there is one and to its default otherwise, and
\* get_config() raises FileNotFoundError exactly when no document exists.
C7_EffectiveIsOverlay ==
  lastOp.op = "get_config" =>
    /\ lastOp.result = "ok" =>
         /\ KnownKeys \subseteq DOMAIN lastOp.retCfg
         /\ \A k \in KnownKeys : lastOp.retCfg[k] = Overlay(fs[ConfigFile], k)
    /\ (lastOp.result = "FileNotFoundError") <=> ~Exists(fs, ConfigFile)

C7_Witness ==
  /\ lastOp.op = "get_config"
  /\ lastOp.result = "ok"
  /\ fs[ConfigFile] = ExternalContent(PartialYaml)

\* C8: a cache that is not None equals the defaults overlaid with the
\* persisted document, and every write operation ends with the cache None.
C8_CacheCoherence ==
  /\ \A m \in Managers : cache[m].loaded =>
        /\ fs[ConfigFile].kind \in {"map", "empty"}
        /\ cache[m].cfg = DictUpdate(DefaultConfig, fs[ConfigFile].entries)
  /\ (lastOp.op \in {"init_config", "set_config", "reset_config",
                      "restore_config"} /\ lastOp.result = "ok") =>
        ~cache[lastOp.mgr].loaded

C8_Witness ==
  /\ cache["m1"].loaded
  /\ lastOp.op = "get_config"
  /\ "test_key" \in DOMAIN fs[ConfigFile].entries
  /\ fs[ConfigFile].entries["default_template"] = "modificado"

\* C9: is_processed(f) is false before any generation of f, true right after
\* a successful generate_extraction_file(f, ...) whatever the output
\* directory and the default_output_dir setting, and false again once the
\* generated file is deleted.
C9_ProcessedRoundTrip ==
  /\ outFs = [p \in {} |-> <<>>] =>
       \A pdf \in InputFiles : ~IsProcessed(fs, cache["m1"], outFs, pdf)
  /\ (genLast.op = "generate_extraction_file" /\ genLast.result = "ok") =>
       IsProcessed(fs, cache["m1"], outFs, genLast.pdf)
  /\ genLast.op = "delete_output" =>
       \A pdf \in InputFiles :
         GenerateOutputFilename(ValuesOf(GetConfig(fs, cache["m1"])), pdf,
                                genLast.path.dir) = genLast.path
           => ~IsProcessed(fs, cache["m1"], outFs, pdf)

\* The template the running driver renders with can be rendered.
TemplateRenders ==
  TemplateStatus(IF args.template = "None"
                   THEN DictGet(ValuesOf(GetConfig(fs, cache["m1"])),
                                "default_template", "default")
                   ELSE args.template) = "ok"

\* C10: in create_all, create_glob and create_default a failure on one item
\* never keeps a later item from being processed: when the driver returns
\* every item has been visited, and every valid PDF that had no output was
\* rendered and written.
C10_FailureIsolation ==
  pc \in {"done", "aborted"} =>
    /\ Len(log) = Len(batch)
    /\ \A j \in 1..Len(log) :
         (ValidatePdfFile(batch[j]) /\ ~log[j].existed /\ TemplateRenders)
           => log[j].outcome = "written"

\* The entries of the running driver's log whose input fails PDF validation.
InvalidVisited == {j \in 1..Len(log) : ~ValidatePdfFile(log[j].pdf)}

\* C11: in create_all and create_glob an output file is written for an input
\* only if the input passed PDF validation, and every input that fails
\* validation is counted as an error in the summary of the batch.
C11_OnlyValidatedInputsWritten ==
  driver \in {"create_all", "create_glob"} =>
    /\ \A j \in 1..Len(log) :
         log[j].outcome = "written" => ValidatePdfFile(log[j].pdf)
    /\ pc = "done" => error_count >= Cardinality(InvalidVisited)

\* The template the running driver passes on, resolved as
\* generate_extraction_file resolves it.
DriverTemplate ==
  IF args.template = "None"
    THEN DictGet(ValuesOf(GetConfig(fs, cache["m1"])), "default_template",
                 "default")
    ELSE args.template

\* C12: when the computed output file exists and force is false,
\* generate_extraction_file raises FileExistsError before rendering and the
\* output files stay as they were, and create_all and create_glob go on
\* without counting an error; when force is true and the call succeeds, the
\* output file holds the newly rendered text.
C12_OverwritePolicy ==
  [][(pc = "loop" /\ genLast'.op = "generate_extraction_file") =>
       /\ (PdfExists(batch[idx]) /\ ~args.force
             /\ genLast'.path \in DOMAIN outFs) =>
            /\ genLast'.result = "FileExistsError"
            /\ outFs' = outFs
            /\ driver \in {"create_all", "create_glob"} =>
                 /\ error_count' = error_count
                 /\ success_count' = success_count
                 /\ pc' \in {"loop", "done"}
       /\ (PdfExists(batch[idx]) /\ ~args.force
             /\ genLast'.result = "FileExistsError") =>
            genLast'.path \in DOMAIN outFs
       /\ (args.force /\ genLast'.result = "ok") =>
            /\ genLast'.path \in DOMAIN outFs'
            /\ outFs'[genLast'.path] =
                 RenderTemplate(DriverTemplate, batch[idx]).content]_vars

C12_Witness ==
  /\ driver = "create_all"
  /\ pc = "done"
  /\ ~args.force
  /\ args.template = "roto"
  /\ \E j \in 1..Len(log) : log[j].outcome = "exists"
  /\ \E j \in 1..Len(log) : log[j].outcome = "failed"
  /\ error_count = Cardinality({j \in 1..Len(log) : log[j].outcome = "failed"})

\* C19: get_template_content("default") while default.md is absent returns
\* the compiled-in default content and leaves default.md on disk with that
\* content; for any other name that has no file it raises FileNotFoundError
\* and creates nothing.
C19_DefaultMaterialized ==
  tplLast.op = "get_template_content" =>
    /\ tplLast.name = "default" =>
         /\ tplLast.result = "ok"
         /\ tplFs["default"].kind # "absent"
         /\ tplLast.content = <<tplFs["default"].text>>
    /\ (tplLast.name # "default" /\ tplFs[tplLast.name].kind = "absent") =>
         tplLast.result = "FileNotFoundError"

\* C20: render_template("default", ...) never fails with template-not-found,
\* even when default.md was removed after the TemplateEngine was constructed;
\* render_template of any other name that has no file raises
\* template-not-found.
C20_DefaultAlwaysRenders ==
  tplLast.op = "render_template" =>
    /\ tplLast.name = "default" => tplLast.result # "TemplateNotFound"
    /\ (tplLast.name # "default" /\ tplFs[tplLast.name].kind = "absent") =>
         tplLast.result = "TemplateNotFound"

\* A step that is a call of op in CSV mode.
CsvCall(op) == csvLast'.op = op /\ csvLast'.seq = csvRuns + 1

\* The file satisfies validate_csv and can be read.
ValidCsv(file) ==
  /\ file.kind = "file"
  /\ REQUIRED_COLUMNS \subseteq file.header

\* The names of the files of the output directory.
MdFiles(out) == {n \in DOMAIN out : out[n].kind = "file"}

\* The files that a step created or changed.
Touched(before, after) ==
  {n \in DOMAIN after : n \notin DOMAIN before \/ after[n] # before[n]}

\* C13: process_csv on a CSV with the four required header columns and no
\* data row returns 0, writes no .md file and does not raise.
C13_HeaderOnlyReturnsZero ==
  [][(CsvCall("process_csv") /\ ValidCsv(csvLast'.file)
        /\ csvLast'.file.rows = <<>>) =>
       /\ csvLast'.result = "ok"
       /\ csvLast'.ret = 0
       /\ csvOut' = csvOut]_vars

\* The number a string of decimal digits denotes.
RECURSIVE DecimalValue(_)
DecimalValue(d) ==
  IF d = <<>> THEN 0
  ELSE 10 * DecimalValue(SubSeq(d, 1, Len(d) - 1))
         + (CHOOSE v \in 0..9 : DigitChars[v + 1] = d[Len(d)])

\* name is k in decimal, zero-padded to three digits and no further,
\* followed by .md
Numbered(name, k) ==
  /\ Len(name) >= 6
  /\ SubSeq(name, Len(name) - 2, Len(name)) = <<".", "m", "d">>
  /\ LET d == SubSeq(name, 1, Len(name) - 3)
     IN /\ \A j \in 1..Len(d) : \E v \in 0..9 : DigitChars[v + 1] = d[j]
        /\ Len(d) > 3 => d[1] # "0"
        /\ DecimalValue(d) = k

\* C14: for a valid CSV with n >= 1 data rows and a start number s >= 0, when
\* no row fails, process_csv writes exactly the files numbered s..s+n-1 (in
\* decimal, zero-padded to at least three digits, with .md), the row at index
\* i into the file numbered s+i, returns n and creates no other .md file.
C14_SequentialNumbering ==
  [][(CsvCall("process_csv") /\ ValidCsv(csvLast'.file)
        /\ csvLast'.start >= 0 /\ Len(csvLast'.file.rows) >= 1
        /\ csvLast'.result = "ok"
        /\ \A j \in 1..Len(csvLast'.rows) :
             csvLast'.rows[j].outcome = "written") =>
       LET n == Len(csvLast'.file.rows)
           s == csvLast'.start
       IN /\ csvLast'.ret = n
          /\ \A i \in 0..(n - 1) :
               \E name \in MdFiles(csvOut') :
                 /\ Numbered(name, s + i)
                 /\ csvOut'[name].content =
                      CreateMarkdownContent(csvLast'.file.rows[i + 1]).content
          /\ \A name \in Touched(csvOut, csvOut') :
               \E i \in 0..(n - 1) : Numbered(name, s + i)
          /\ Cardinality(MdFiles(csvOut') \ MdFiles(csvOut)) <= n]_vars

C14_Witness ==
  /\ csvLast.op = "process_csv"
  /\ csvLast.result = "ok"
  /\ csvLast.start = 999
  /\ csvLast.ret = 2
  /\ {<<"9", "9", "9", ".", "m", "d">>,
      <<"1", "0", "0", "0", ".", "m", "d">>} \subseteq MdFiles(csvOut)

\* C15: when building or writing the note of a row fails, process_csv does
\* not raise, every later row is still processed, the value returned is the
\* number of rows whose file was written, and the row at index j keeps the
\* number start + j: a failed row leaves a gap and shifts nothing.
C15_RowFailureIsolation ==
  [][(CsvCall("process_csv") /\ ValidCsv(csvLast'.file)
        /\ csvLast'.start >= 0 /\ Len(csvLast'.file.rows) >= 1) =>
       LET rows == csvLast'.rows
           written == {j \in 1..Len(rows) : rows[j].outcome = "written"}
       IN /\ csvLast'.result = "ok"
          /\ Len(rows) = Len(csvLast'.file.rows)
          /\ csvLast'.ret = Cardinality(written)
          /\ \A j \in written :
               /\ Numbered(rows[j].name, csvLast'.start + j - 1)
               /\ rows[j].name \in MdFiles(csvOut')
               /\ csvOut'[rows[j].name].content =
                    CreateMarkdownContent(csvLast'.file.rows[j]).content
          /\ \A j \in (1..Len(rows)) \ written :
               rows[j].name \notin Touched(csvOut, csvOut')]_vars

C15_Witness ==
  /\ csvLast.op = "process_csv"
  /\ csvLast.result = "ok"
  /\ Len(csvLast.rows) = 3
  /\ csvLast.rows[2].outcome = "AttributeError"
  /\ csvLast.rows[3].outcome = "written"
  /\ csvLast.rows[3].name = <<"0", "1", "2", ".", "m", "d">>
  /\ csvLast.ret = 2

\* C16: for a CSV file that can be read, validate_csv raises ValueError
\* exactly when one of source, doi, title, abstract is not a column of the
\* header; the message names exactly the absent required columns in
\* ascending alphabetical order; when none is absent the columns of the
\* header, extra ones included, are returned.
C16_MissingColumns ==
  (csvLast.op = "validate_csv" /\ csvLast.file.kind = "file") =>
    LET absent == REQUIRED_COLUMNS \ csvLast.file.header
        named == Tail(csvLast.message)
    IN /\ csvLast.result \in {"ok", "ValueError"}
       /\ (csvLast.result = "ValueError") <=> (absent # {})
       /\ csvLast.result = "ValueError" =>
            /\ {named[j] : j \in 1..Len(named)} = absent
            /\ \A j, k \in 1..Len(named) :
                 j < k => Rank(named[j]) < Rank(named[k])
       /\ csvLast.result = "ok" => csvLast.columns = csvLast.file.header

C16_Witness ==
  /\ csvLast.op = "validate_csv"
  /\ csvLast.file.header = {"title", "source", "extra_column"}
  /\ csvLast.result = "ValueError"
  /\ Tail(csvLast.message) = <<"abstract", "doi">>

\* The row can be built and written: no cell is None and its file name is
\* not taken by a directory.
RowCanBeWritten(out, record, name) ==
  /\ \A c \in REQUIRED_COLUMNS : RecordGet(record, c) # NoneVal
  /\ ~(name \in DOMAIN out /\ out[name].kind = "dir")

\* C17: whenever rendering the csv_record template fails,
\* create_markdown_content returns the hardcoded note of the record, so the
\* file of the row is still written and counted: a template failure alone
\* never makes a row fail.
C17_RenderFallback ==
  [][(CsvCall("process_csv") /\ TemplateStatus("csv_record") # "ok"
        /\ ValidCsv(csvLast'.file) /\ csvLast'.file.rows # <<>>) =>
       LET rows == csvLast'.rows
           data == csvLast'.file.rows
       IN /\ Len(rows) = Len(data)
          /\ \A j \in 1..Len(rows) :
               RowCanBeWritten(csvOut, data[j], rows[j].name) =>
                 /\ rows[j].outcome = "written"
                 /\ csvOut'[rows[j].name].kind = "file"
                 /\ csvOut'[rows[j].name].content.form = "fallback"
                 /\ csvOut'[rows[j].name].content.source =
                      Strip(data[j]["source"])
          /\ csvLast'.ret =
               Cardinality({j \in 1..Len(rows) :
                              RowCanBeWritten(csvOut, data[j],
                                              rows[j].name)})]_vars

C17_Witness ==
  /\ csvLast.op = "process_csv"
  /\ tplFs["csv_record"].kind = "broken"
  /\ csvLast.ret = 2
  /\ Len(csvLast.rows) = 2
  /\ \A j \in 1..2 :
       /\ csvLast.rows[j].name \in MdFiles(csvOut)
       /\ csvOut[csvLast.rows[j].name].content.form = "fallback"

\* C18: process_csv given a CSV that does not exist, is not a file, lacks a
\* required column or cannot be read raises to the caller and writes or
\* changes no output file; find_pdf_files on a missing path or on a path
\* that is not a directory raises, and no file has been generated.
C18_PreconditionsFirst ==
  [][/\ (CsvCall("process_csv")
           /\ (csvLast'.file.kind # "file"
                 \/ ~(REQUIRED_COLUMNS \subseteq csvLast'.file.header))) =>
          /\ csvLast'.result = IF csvLast'.file.kind = "missing"
                                 THEN "FileNotFoundError" ELSE "ValueError"
          /\ csvLast'.rows = <<>>
          /\ csvOut' = csvOut
     /\ (genLast'.op = "find_pdf_files" /\ csvRuns' = csvRuns + 1
           /\ csvLast' = csvLast
           /\ DirKind(genLast'.path.dir) # "dir") =>
          /\ genLast'.result = IF DirKind(genLast'.path.dir) = "missing"
                                 THEN "FileNotFoundError" ELSE "ValueError"
          /\ outFs' = outFs
          /\ csvOut' = csvOut]_vars

C18_Witness ==
  /\ csvLast.op = "process_csv"
  /\ csvLast.result = "ValueError"
  /\ csvLast.file.header = REQUIRED_COLUMNS \ {"doi"}
  /\ Len(csvLast.file.rows) = 1
  /\ csvLast.start = 0
  /\ MdFiles(csvOut) = {<<"0", "0", "0", ".", "m", "d">>}
  /\ csvOut[<<"0", "0", "0", ".", "m", "d">>].content = OldNote

\* C21: create_template(name, content, force=False) on a name whose file
\* exists raises FileExistsError and leaves the file as it was; when the
\* file is absent or force is true it succeeds, and then
\* get_template_content(name) returns content and list_templates() holds
\* name; list_templates() returns the names of all files of the templates
\* directory in ascending order without duplicates.
C21_CreateAndList ==
  [][/\ \A name \in TplNames :
          (tplLast'.op = "create_template" /\ tplLast'.name = name) =>
            LET existed == tplFs[name].kind # "absent"
            IN /\ (existed /\ ~tplLast'.force) =>
                    (tplLast'.result = "FileExistsError" /\ tplFs' = tplFs)
               /\ (~existed \/ tplLast'.force) =>
                    /\ tplLast'.result = "ok"
                    /\ GetTemplateContent(name)'.result = "ok"
                    /\ GetTemplateContent(name)'.content = tplLast'.content
                    /\ \E j \in 1..Len(ListTemplates') :
                         ListTemplates'[j] = name
                    /\ \A n \in TplNames \ {name} : tplFs'[n] = tplFs[n]
     /\ tplLast'.op = "list_templates" =>
          LET names == tplLast'.content
          IN /\ {names[j] : j \in 1..Len(names)} =
                  {n \in TplNames : tplFs[n].kind # "absent"}
             /\ \A j, k \in 1..Len(names) :
                  j < k => TplRank(names[j]) < TplRank(names[k])]_vars

C21_Witness ==
  /\ tplLast.op = "create_template"
  /\ tplLast.result = "FileExistsError"
  /\ tplLast.name = "csv_record"
  /\ tplLast.content = <<CustomTemplate.text>>
  /\ tplFs["csv_record"] = BrokenTemplate

\* C29: after every restore_config call that returns without raising, the
\* next get_config() succeeds and returns a mapping that holds all known
\* keys: a backup that parses but is not a mapping is never installed.
C29_RestoreOnlyWellFormed ==
  [][(Call("restore_config") /\ lastOp'.result = "ok") =>
       /\ GetConfig(fs', cache'[lastOp'.mgr]).result = "ok"
       /\ KnownKeys \subseteq DOMAIN GetConfig(fs', cache'[lastOp'.mgr]).cfg
       /\ fs'[ConfigFile].kind # "list"]_vars

\* C30: when render_template raises in generate_extraction_file (template
\* not found or render error) the exception propagates and the output files
\* are as before: none is created, and with force=true an existing output
\* file keeps its contents.
RenderErrors == {"TemplateNotFound", "TemplateSyntaxError"}

C30_WriteOnlyAfterRender ==
  [][(genLast'.op = "generate_extraction_file"
        /\ genLast'.result \in RenderErrors)
       => outFs' = outFs]_vars

C30_Witness ==
  /\ genLast.op = "generate_extraction_file"
  /\ genLast.result = "TemplateSyntaxError"
  /\ genLast.path \in DOMAIN outFs
  /\ outFs[genLast.path] = <<"default_content", genLast.pdf.stem>>

\* The output path the running driver computes for pdf.
DriverOutputPath(pdf) ==
  GenerateOutputFilename(ValuesOf(GetConfig(fs, cache["m1"])), pdf,
                         args.output_dir)

\* C26: within one run of create_all or create_glob, which write into a
\* single output directory, two distinct inputs never have the same output
\* path, so no input's output is overwritten by, and no input is skipped as
\* already existing because of, an earlier input of the same run.
C26_CollisionSafeNaming ==
  driver \in {"create_all", "create_glob"} =>
    /\ \A j, k \in 1..Len(batch) :
         j # k => DriverOutputPath(batch[j]) # DriverOutputPath(batch[k])
    /\ \A j, k \in 1..Len(log) :
         (j < k /\ log[j].outcome = "written"
            /\ log[k].outcome \in {"written", "exists"})
           => DriverOutputPath(log[j].pdf) # DriverOutputPath(log[k].pdf)

\* The entries of the running driver's log with the given outcome.
WithOutcome(entries, outcome) ==
  {j \in 1..Len(entries) : entries[j].outcome = outcome}

\* C27: in one run of create_all or create_glob every step of the loop
\* visits the next item, gives it exactly one terminal outcome (written,
\* exists, invalid or failed) and never touches an earlier item's outcome,
\* so each item is visited once and written at most once; when create_all
\* ends success_count is the number of items written, error_count the
\* number that failed, and their sum never exceeds the number of items.
C27_PerItemStateMachine ==
  [][(driver \in {"create_all", "create_glob"} /\ pc = "loop") =>
       /\ idx' = idx + 1
       /\ Len(log') = Len(log) + 1
       /\ \A j \in 1..Len(log) : log'[j] = log[j]
       /\ log'[idx].pdf = batch[idx]
       /\ log'[idx].outcome \in {"written", "exists", "invalid", "failed"}
       /\ \A j, k \in 1..Len(log') : j # k => log'[j].pdf # log'[k].pdf
       /\ log'[idx].outcome # "written" => outFs' = outFs
       /\ log'[idx].outcome = "written" =>
            \A p \in DOMAIN outFs :
              p # DriverOutputPath(batch[idx]) =>
                (p \in DOMAIN outFs' /\ outFs'[p] = outFs[p])
       /\ success_count' = Cardinality(WithOutcome(log', "written"))
       /\ success_count' + error_count' <= Len(batch)
       /\ pc' \in {"loop", "done"}
       /\ pc' = "done" <=> Len(log') = Len(batch)
       /\ (driver = "create_all") =>
            error_count' = Cardinality(WithOutcome(log', "failed"))]_vars

C27_Witness ==
  /\ driver = "create_all"
  /\ pc = "done"
  /\ Len(log) = 3
  /\ success_count = 2
  /\ error_count = 0
  /\ Cardinality(WithOutcome(log, "exists")) = 1

\* The document of config.yaml overlaid on the defaults.
Persisted == DictUpdate(DefaultConfig, fs[ConfigFile].entries)

\* C28: with two ConfigManager instances over the same document, get_config
\* and get_config_value on either instance return the values persisted by
\* the last set_config, reset_config or restore_config of any instance, even
\* when the reading instance had loaded the configuration before.
C28_SharedConfiguration ==
  (Exists(fs, ConfigFile) /\ lastOp.result = "ok") =>
    /\ lastOp.op = "get_config" => lastOp.retCfg = Persisted
    /\ lastOp.op = "get_config_value" =>
         lastOp.retVal = DictGet(Persisted, lastOp.key, lastOp.val)

\* C22: in the context built by _prepare_context every key holds the
\* caller's keyword argument if one was given, otherwise the value taken from
\* the source file if one was passed and the key is one of its keys,
\* otherwise the fixed derived value; without a source file none of the
\* source-file keys is present unless the caller gave it.
C22_ContextPrecedence ==
  (fnCall.op = "prepare_context" /\ fnCall.done) =>
    LET pdf_file == fnCall.pdf_file
        kwargs == fnCall.kwargs
        context == fnCall.out
    IN \A k \in DerivedKeys \cup SourceKeys \cup KwargKeys :
         IF k \in DOMAIN kwargs
           THEN k \in DOMAIN context /\ context[k] = kwargs[k]
         ELSE IF pdf_file # NoPdf /\ k \in SourceKeys
           THEN k \in DOMAIN context
                  /\ context[k] = SourceValue(pdf_file, k)
         ELSE IF k \in DerivedKeys
           THEN k \in DOMAIN context /\ context[k] = DerivedValue(k)
         ELSE k \notin DOMAIN context

C22_Witness ==
  /\ fnCall.op = "prepare_context"
  /\ fnCall.done
  /\ fnCall.pdf_file # NoPdf
  /\ DOMAIN fnCall.kwargs = {"nombre_archivo", "autor"}
  /\ fnCall.out["nombre_archivo"] = KwargValue
  /\ fnCall.out["nombre_completo"] = <<"a", " ", "b", ".pdf">>

\* A name holds none of the characters < > : " / \ | ? * and no whitespace.
IsClean(name) ==
  \A i \in 1..Len(name) : name[i] \notin InvalidChars \cup Whitespace

\* C23: clean_filename and sanitize_filename are idempotent, for every name
\* and every max_filename_length, and their result holds no invalid
\* character and no whitespace.
C23_SanitizerIdempotent ==
  /\ (fnCall.op = "clean_filename" /\ fnCall.done) =>
       /\ CleanFilename(fnCall.out, fnCall.max_length) = fnCall.out
       /\ IsClean(fnCall.out)
  /\ (fnCall.op = "sanitize_filename" /\ fnCall.done) =>
       /\ SanitizeFilename(fnCall.out) = fnCall.out
       /\ IsClean(fnCall.out)

\* The name as it is before the length limit is applied.
BeforeTrim(call) ==
  IF call.op = "clean_filename"
    THEN CollapseWhitespace(ReplaceInvalid(call.filename))
    ELSE StripDots(CollapseWhitespace(ReplaceInvalid(call.filename)))

EndsWith(name, ext) ==
  /\ Len(ext) <= Len(name)
  /\ SubSeq(name, Len(name) - Len(ext) + 1, Len(name)) = ext

\* C24: the name returned by clean_filename is at most max_filename_length
\* long (100 for sanitize_filename), and when the name was cut the result
\* still ends with the whole extension, however long the extension is.
C24_LengthTrimming ==
  (fnCall.op \in {"clean_filename", "sanitize_filename"} /\ fnCall.done) =>
    /\ Len(fnCall.out) <= fnCall.max_length
    /\ Len(BeforeTrim(fnCall)) > fnCall.max_length =>
         EndsWith(fnCall.out, SplitExt(BeforeTrim(fnCall)).ext)

\* The number of divisions by 1024 that the unit of a byte count stands
\* for: 0 below 1024, 1 below 1024^2, 2 below 1024^3, and 3 from there on.
UnitSteps(d) ==
  IF Below1024(d, 0) THEN 0
  ELSE IF Below1024(d, 1) THEN 1
  ELSE IF Below1024(d, 2) THEN 2
  ELSE 3

\* C25: _filesize_filter(n) prints n divided by 1024 once per unit step
\* with unit B below 1024, KB below 1024^2, MB below 1024^3 and GB for every
\* larger n; a text is returned unchanged.
C25_UnitSelection ==
  (fnCall.op = "filesize_filter" /\ fnCall.done) =>
    IF fnCall.size_bytes.kind = "int"
      THEN LET d == fnCall.size_bytes.digits
           IN /\ fnCall.out.unit = Units[UnitSteps(d) + 1]
              /\ fnCall.out.tenths = OneDecimal(d, UnitSteps(d))
              /\ fnCall.out.unit \in {"B", "KB", "MB", "GB"}
      ELSE fnCall.out.text = fnCall.size_bytes.text

====
